---------------------------- MODULE Spec2Model ----------------------------
(***************************************************************************)
(* Targeted exam generation and weakness analysis of StudentCareerPlanner. *)
(*                                                                         *)
(* Stored tables are sequences of rows in insertion (rowid) order; the id  *)
(* of a row of an AUTOINCREMENT table is its position.  Difficulties are   *)
(* integers in hundredths (0.5 is 50).  A difficulty target is the exact   *)
(* fraction [n, d] of hundredths n/d; mastery rates are the exact fraction *)
(* correct/total.  The bounds of a slot's difficulty window are the ones   *)
(* the code computes in binary floating point (slot_difficulty_range); they*)
(* differ from the exact ones only where a stored difficulty lies on an    *)
(* edge of the window.                                                     *)
(* Question types: "choice" is '选择题', "fill_in" is '填空题',            *)
(* "short_answer" is '解答题'.                                             *)
(***************************************************************************)
EXTENDS Integers, Sequences, FiniteSets, TLC

VARIABLES
    questions,           \* table questions: rows [id, subject_id, question_type, difficulty, score]
    knowledge_points,    \* table knowledge_points: rows [id, subject_id, level]
    question_knowledge,  \* table question_knowledge: rows [question_id, knowledge_point_id]
    student_answers,     \* table student_answers: rows [id, student_id, exam_id, question_id, is_correct]
    pc,                  \* position of the caller: "idle", "select", "stats", "done"
    args,                \* arguments of the running generate_targeted_exam call
    weaknesses,          \* local weaknesses of the run
    weak_kp_ids,         \* local weak_kp_ids of the run
    question_distribution, \* local template of the run: sequence of [q_type, count, score_each]
    block,               \* index of the template entry the outer loop is at
    i,                   \* slot index of the inner loop
    selected_questions,  \* local selected_questions of the run
    used_q_ids,          \* local used_q_ids of the run
    slot,                \* what the last processed slot did (observation of the run)
    queries,             \* number of search_questions calls of the run
    result,              \* value returned by the last generate_targeted_exam call
    analysis,            \* value the caller holds from the last call that returned, with its arguments
    targets              \* difficulty targets computed so far for one block (SpecT)

dbvars == <<questions, knowledge_points, question_knowledge, student_answers>>
runvars == <<pc, args, weaknesses, weak_kp_ids, question_distribution, block, i,
             selected_questions, used_q_ids, slot, queries, result>>
vars == <<questions, knowledge_points, question_knowledge, student_answers,
          pc, args, weaknesses, weak_kp_ids, question_distribution, block, i,
          selected_questions, used_q_ids, slot, queries, result, analysis, targets>>

\* Python's None, one value per type it stands in for
NoBound == [n |-> 0, d |-> 0]                  \* no difficulty bound given
NoQuestion == [id |-> 0, subject_id |-> 0, question_type |-> "", difficulty |-> 0, score |-> 0]
NoTemplate == << [q_type |-> "None", count |-> 0, score_each |-> 0] >>
NoArgs == [student_id |-> 0, subject_id |-> 0, total_score |-> 0, focus_on_weaknesses |-> FALSE,
           difficulty_level |-> "", question_distribution |-> NoTemplate]
NoResult == [returned |-> FALSE]

-----------------------------------------------------------------------------
(* Bounds of the model *)

MaxAnswers == 2       \* attempts add_student_answer may append (SpecW)
MaxRunAnswers == 1    \* attempts add_student_answer may append (Spec)
MaxCount == 7         \* largest block size of SpecT
MaxChoice == 3        \* candidate lists up to this length are drawn from in full

-----------------------------------------------------------------------------
(* Sequence helpers *)

Range(s) == {s[k] : k \in DOMAIN s}

RECURSIVE SumSeq(_)
SumSeq(s) == IF s = <<>> THEN 0 ELSE Head(s) + SumSeq(Tail(s))

RECURSIVE Concat(_)
Concat(ss) == IF ss = <<>> THEN <<>> ELSE Head(ss) \o Concat(Tail(ss))

Max2(a, b) == IF a >= b THEN a ELSE b
Min2(a, b) == IF a <= b THEN a ELSE b

\* fractions [n, d] with d > 0
FracLeq(a, b) == a.n * b.d <= b.n * a.d
FracLess(a, b) == a.n * b.d < b.n * a.d

-----------------------------------------------------------------------------
(* Storage queries used by the services *)

NoSubject == 0        \* a subject_id of None or 0: Python treats both as "not given"

\* mutant: the rows of every student are returned
get_student_all_answers_AnyStudent(student_id) == student_answers

get_student_all_answers(student_id) ==
    SelectSeq(student_answers, LAMBDA a : a.student_id = student_id)

\* The join has no ORDER BY: SQLite walks the primary-key index of
\* question_knowledge (question_id, knowledge_point_id), so the points of a
\* question come back by ascending knowledge_point_id, whatever the order in
\* which the links were stored.
get_question_knowledge_points(question_id) ==
    LET ids == {question_knowledge[r].knowledge_point_id :
                   r \in {r \in DOMAIN question_knowledge :
                             /\ question_knowledge[r].question_id = question_id
                             /\ question_knowledge[r].knowledge_point_id
                                    \in DOMAIN knowledge_points}}
    IN  [k \in 1..Cardinality(ids) |->
            knowledge_points[CHOOSE x \in ids : Cardinality({y \in ids : y < x}) = k - 1]]

-----------------------------------------------------------------------------
(* WeaknessAnalysisService *)

WeaknessThreshold == 65    \* mastery_rate < 0.65, in hundredths

\* The tally loop over answers and their knowledge points.  Encounters is the
\* sequence of loop bodies that are not skipped by `continue`, in loop order.
\* mutant: the subject filter is not applied
CountedKps_NoFilter(answer, subject_id) ==
    LET kps == get_question_knowledge_points(answer.question_id)
    IN  [k \in 1..Len(kps) |-> [kp |-> kps[k], is_correct |-> answer.is_correct]]

\* mutant: only the first knowledge point of a question is counted
CountedKps_FirstOnly(answer, subject_id) ==
    LET kps == get_question_knowledge_points(answer.question_id)
        kept == SelectSeq(kps, LAMBDA kp : ~(subject_id # NoSubject /\ kp.subject_id # subject_id))
    IN  [k \in 1..Min2(1, Len(kept)) |-> [kp |-> kept[k], is_correct |-> answer.is_correct]]

CountedKps(answer, subject_id) ==
    LET kps == get_question_knowledge_points(answer.question_id)
        kept == SelectSeq(kps, LAMBDA kp : ~(subject_id # NoSubject /\ kp.subject_id # subject_id))
    IN  [k \in 1..Len(kept) |-> [kp |-> kept[k], is_correct |-> answer.is_correct]]

Encounters(answers, subject_id) ==
    Concat([k \in 1..Len(answers) |-> CountedKps(answers[k], subject_id)])

\* mutant: the tallies are kept between calls and go on from those of the last
\* analyze_student_weaknesses call
KpPerformance_Accumulating(answers, subject_id) ==
    LET enc == Encounters(answers, subject_id)
        first == {k \in DOMAIN enc : \A m \in 1..(k - 1) : enc[m].kp.id # enc[k].kp.id}
        firsts == SelectSeq([k \in DOMAIN enc |-> [at |-> k, kp |-> enc[k].kp]],
                            LAMBDA e : e.at \in first)
        kept(kp_id) == IF analysis.call = "analyze_student_weaknesses"
                       THEN SumSeq([k \in DOMAIN analysis.value |->
                                IF analysis.value[k].knowledge_point_id = kp_id
                                THEN analysis.value[k].total_attempts ELSE 0])
                       ELSE 0
    IN  [k \in 1..Len(firsts) |->
            [knowledge_point_id |-> firsts[k].kp.id, subject_id |-> firsts[k].kp.subject_id,
             level |-> firsts[k].kp.level,
             total_attempts |->
                 kept(firsts[k].kp.id)
                 + Cardinality({m \in DOMAIN enc : enc[m].kp.id = firsts[k].kp.id}),
             correct_attempts |->
                 Cardinality({m \in DOMAIN enc : enc[m].kp.id = firsts[k].kp.id
                                                  /\ enc[m].is_correct})]]

\* kp_performance, a dict in insertion order: one entry per knowledge point, at
\* the place of its first encounter, counting its encounters
KpPerformance(answers, subject_id) ==
    LET enc == Encounters(answers, subject_id)
        first == {k \in DOMAIN enc : \A m \in 1..(k - 1) : enc[m].kp.id # enc[k].kp.id}
        firsts == SelectSeq([k \in DOMAIN enc |-> [at |-> k, kp |-> enc[k].kp]],
                            LAMBDA e : e.at \in first)
    IN  [k \in 1..Len(firsts) |->
            [knowledge_point_id |-> firsts[k].kp.id, subject_id |-> firsts[k].kp.subject_id,
             level |-> firsts[k].kp.level,
             total_attempts |->
                 Cardinality({m \in DOMAIN enc : enc[m].kp.id = firsts[k].kp.id}),
             correct_attempts |->
                 Cardinality({m \in DOMAIN enc : enc[m].kp.id = firsts[k].kp.id
                                                  /\ enc[m].is_correct})]]

MasteryRate(kp_data) == [n |-> kp_data.correct_attempts, d |-> kp_data.total_attempts]

\* mutant: a rate of exactly 0.65 counts as weak
IsWeak_Inclusive(kp_data) ==
    /\ kp_data.total_attempts # 0
    /\ MasteryRate(kp_data).n * 100 <= WeaknessThreshold * MasteryRate(kp_data).d

IsWeak(kp_data) ==
    /\ kp_data.total_attempts # 0
    /\ MasteryRate(kp_data).n * 100 < WeaknessThreshold * MasteryRate(kp_data).d

WithRate(kp_data) ==
    [knowledge_point_id |-> kp_data.knowledge_point_id, subject_id |-> kp_data.subject_id,
     level |-> kp_data.level, total_attempts |-> kp_data.total_attempts,
     correct_attempts |-> kp_data.correct_attempts, mastery_rate |-> MasteryRate(kp_data)]

\* list.sort(key=mastery_rate): stable, ascending
InsertByRate(sorted, x) ==
    LET after == {k \in DOMAIN sorted : FracLess(x.mastery_rate, sorted[k].mastery_rate)}
        pos == IF after = {} THEN Len(sorted) + 1
               ELSE CHOOSE k \in after : \A m \in after : k <= m
    IN  SubSeq(sorted, 1, pos - 1) \o <<x>> \o SubSeq(sorted, pos, Len(sorted))

RECURSIVE SortByRate(_)
SortByRate(s) ==
    IF s = <<>> THEN <<>>
    ELSE InsertByRate(SortByRate(SubSeq(s, 1, Len(s) - 1)), s[Len(s)])

analyze_student_weaknesses(student_id, subject_id) ==
    LET answers == get_student_all_answers(student_id)
        kp_performance == KpPerformance(answers, subject_id)
        weak == SelectSeq(kp_performance, IsWeak)
        rated == [k \in DOMAIN weak |-> WithRate(weak[k])]
    IN  IF answers = <<>> THEN <<>> ELSE SortByRate(rated)

get_knowledge_point_mastery(student_id) ==
    LET kp_stats == KpPerformance(get_student_all_answers(student_id), NoSubject)
        ids == {kp_stats[k].knowledge_point_id : k \in DOMAIN kp_stats}
        stat(kp_id) == CHOOSE e \in Range(kp_stats) : e.knowledge_point_id = kp_id
    IN  [kp_id \in ids |->
            IF stat(kp_id).total_attempts > 0 THEN MasteryRate(stat(kp_id))
            ELSE [n |-> 1, d |-> 2]]

-----------------------------------------------------------------------------
(* DatabaseManager.search_questions *)

\* filters: a key that is absent and a key with a falsy value (0, '', [], None
\* for the knowledge points) are treated alike by filters.get(...)
NoType == ""

LinkCount(q, kp_ids) ==
    Cardinality({k \in DOMAIN question_knowledge :
                    /\ question_knowledge[k].question_id = q.id
                    /\ question_knowledge[k].knowledge_point_id \in Range(kp_ids)})

\* FROM questions q [JOIN question_knowledge qk ON q.id = qk.question_id
\*                   WHERE qk.knowledge_point_id IN (...)]: one row per link
JoinedRows(kp_ids) ==
    IF kp_ids = <<>> THEN questions
    ELSE Concat([k \in DOMAIN questions |->
                    [m \in 1..LinkCount(questions[k], kp_ids) |-> questions[k]]])

\* mutant: the question type is not compared
RowMatches_NoType(q, filters) ==
    /\ filters.subject_id # NoSubject => q.subject_id = filters.subject_id
    /\ filters.min_difficulty # NoBound =>
           FracLeq(filters.min_difficulty, [n |-> q.difficulty, d |-> 1])
    /\ filters.max_difficulty # NoBound =>
           FracLeq([n |-> q.difficulty, d |-> 1], filters.max_difficulty)
    /\ filters.exclude_ids # <<>> => q.id \notin Range(filters.exclude_ids)

\* mutant: the exclusion list is not applied
RowMatches_NoExclude(q, filters) ==
    /\ filters.subject_id # NoSubject => q.subject_id = filters.subject_id
    /\ filters.question_type # NoType => q.question_type = filters.question_type
    /\ filters.min_difficulty # NoBound =>
           FracLeq(filters.min_difficulty, [n |-> q.difficulty, d |-> 1])
    /\ filters.max_difficulty # NoBound =>
           FracLeq([n |-> q.difficulty, d |-> 1], filters.max_difficulty)

RowMatches(q, filters) ==
    /\ filters.subject_id # NoSubject => q.subject_id = filters.subject_id
    /\ filters.question_type # NoType => q.question_type = filters.question_type
    /\ filters.min_difficulty # NoBound =>
           FracLeq(filters.min_difficulty, [n |-> q.difficulty, d |-> 1])
    /\ filters.max_difficulty # NoBound =>
           FracLeq([n |-> q.difficulty, d |-> 1], filters.max_difficulty)
    /\ filters.exclude_ids # <<>> => q.id \notin Range(filters.exclude_ids)

\* SELECT DISTINCT
RECURSIVE Distinct(_)
Distinct(rows) ==
    IF rows = <<>> THEN <<>>
    ELSE LET front == Distinct(SubSeq(rows, 1, Len(rows) - 1))
             last == rows[Len(rows)]
         IN  IF last \in Range(front) THEN front ELSE Append(front, last)

\* mutant: SELECT without DISTINCT
search_questions_NoDistinct(filters) ==
    SelectSeq(JoinedRows(filters.knowledge_point_ids), LAMBDA q : RowMatches(q, filters))

search_questions(filters) ==
    Distinct(SelectSeq(JoinedRows(filters.knowledge_point_ids),
                       LAMBDA q : RowMatches(q, filters)))

-----------------------------------------------------------------------------
(* IntelligentExamGenerator: helpers *)

WeakLimit == 15            \* weaknesses[:15]
AnalyzedLimit == 10        \* weaknesses[:10]
WindowHalf == 15           \* q_difficulty -+ 0.15, in hundredths
GradientSpread == 20       \* base_difficulty -+ 0.2
MinDifficulty == 10        \* max(0.1, ...)
MaxDifficulty == 90        \* min(0.9, ...)

Prefix(s, k) == SubSeq(s, 1, Min2(k, Len(s)))

_get_default_distribution(subject_id, total_score) ==
    IF total_score = 150
    THEN << [q_type |-> "choice", count |-> 12, score_each |-> 4],
            [q_type |-> "fill_in", count |-> 4, score_each |-> 5],
            [q_type |-> "short_answer", count |-> 6, score_each |-> 15] >>
    ELSE IF total_score = 100
    THEN << [q_type |-> "choice", count |-> 10, score_each |-> 4],
            [q_type |-> "short_answer", count |-> 5, score_each |-> 12] >>
    ELSE << [q_type |-> "choice", count |-> 10, score_each |-> 4],
            [q_type |-> "fill_in", count |-> 5, score_each |-> 5],
            [q_type |-> "short_answer", count |-> 5, score_each |-> 10] >>

_get_difficulty_target(level) ==
    IF level = "easy" THEN 30
    ELSE IF level = "medium" THEN 50
    ELSE IF level = "hard" THEN 70
    ELSE 50

\* mutant: the last slot of a block reaches the ceiling
_get_question_difficulty_target_Inclusive(index, total, base_difficulty) ==
    LET progress == IF total > 1 THEN [n |-> index, d |-> total - 1] ELSE [n |-> 0, d |-> 1]
        min_diff == Max2(MinDifficulty, base_difficulty - GradientSpread)
        max_diff == Min2(MaxDifficulty, base_difficulty + GradientSpread)
    IN  [n |-> min_diff * progress.d + (max_diff - min_diff) * progress.n, d |-> progress.d]

\* mutant: the gradient runs from the ceiling down
_get_question_difficulty_target_Descending(index, total, base_difficulty) ==
    LET progress == IF total > 0 THEN [n |-> index, d |-> total] ELSE [n |-> 0, d |-> 1]
        min_diff == Max2(MinDifficulty, base_difficulty - GradientSpread)
        max_diff == Min2(MaxDifficulty, base_difficulty + GradientSpread)
    IN  [n |-> max_diff * progress.d - (max_diff - min_diff) * progress.n, d |-> progress.d]

\* mutant: no gradient, every slot targets the base difficulty
_get_question_difficulty_target_Flat(index, total, base_difficulty) ==
    [n |-> base_difficulty, d |-> 1]

\* min_diff + (max_diff - min_diff) * progress, as a fraction of hundredths
_get_question_difficulty_target(index, total, base_difficulty) ==
    LET progress == IF total > 0 THEN [n |-> index, d |-> total] ELSE [n |-> 0, d |-> 1]
        min_diff == Max2(MinDifficulty, base_difficulty - GradientSpread)
        max_diff == Min2(MaxDifficulty, base_difficulty + GradientSpread)
    IN  [n |-> min_diff * progress.d + (max_diff - min_diff) * progress.n, d |-> progress.d]

\* (q_difficulty - 0.15, q_difficulty + 0.15) is evaluated in binary floating
\* point.  For the three base difficulties, block sizes up to 12 and stored
\* difficulties in hundredths, the computed bound differs from the exact one in
\* the outcome of a comparison only in the cases below: <<base, count, index, d>>
\* says that the exact window of that slot has d as an edge and that the
\* computed bound lies just inside it (0.3 + 0.15 is 0.44999999999999996), so
\* that a stored difficulty d/100 fails the comparison.
RoundedInsideEdges ==
    {<<30, 2, 1, 15>>, <<30, 4, 1, 5>>, <<30, 4, 2, 15>>, <<30, 5, 1, 3>>, <<30, 5, 2, 11>>,
      <<30, 6, 3, 15>>, <<30, 8, 1, 0>>, <<30, 8, 2, 5>>, <<30, 8, 4, 15>>, <<30, 8, 7, 30>>,
      <<30, 10, 2, 3>>, <<30, 10, 4, 11>>, <<30, 10, 5, 15>>, <<30, 10, 9, 31>>, <<30, 12, 3, 5>>,
      <<30, 12, 6, 15>>, <<50, 1, 0, 45>>, <<50, 2, 0, 45>>, <<50, 3, 0, 45>>, <<50, 4, 0, 45>>,
      <<50, 4, 1, 55>>, <<50, 5, 0, 45>>, <<50, 6, 0, 45>>, <<50, 7, 0, 45>>, <<50, 8, 0, 45>>,
      <<50, 8, 2, 55>>, <<50, 8, 7, 80>>, <<50, 9, 0, 45>>, <<50, 10, 0, 45>>, <<50, 10, 9, 81>>,
      <<50, 11, 0, 45>>, <<50, 12, 0, 45>>, <<50, 12, 3, 55>>, <<70, 1, 0, 65>>, <<70, 2, 0, 65>>,
      <<70, 3, 0, 65>>, <<70, 4, 0, 65>>, <<70, 5, 0, 65>>, <<70, 5, 2, 81>>, <<70, 5, 3, 89>>,
      <<70, 6, 0, 65>>, <<70, 7, 0, 65>>, <<70, 8, 0, 65>>, <<70, 8, 3, 80>>, <<70, 8, 5, 90>>,
      <<70, 8, 7, 100>>, <<70, 9, 0, 65>>, <<70, 10, 0, 65>>, <<70, 10, 3, 77>>, <<70, 10, 4, 81>>,
      <<70, 10, 6, 89>>, <<70, 10, 7, 93>>, <<70, 11, 0, 65>>, <<70, 12, 0, 65>> }

RoundsInside(base_difficulty, count, index, bound) ==
    \E d \in 0..100 : /\ <<base_difficulty, count, index, d>> \in RoundedInsideEdges
                      /\ d * bound.d = bound.n

\* the difficulty_range handed to _select_question.  A bound that is rounded
\* inside an edge d is represented by d -+ 1/2, which compares with every
\* stored difficulty in hundredths as the computed bound does.
slot_difficulty_range(index, count, base_difficulty) ==
    LET q_difficulty == _get_question_difficulty_target(index, count, base_difficulty)
        low == [n |-> q_difficulty.n - WindowHalf * q_difficulty.d, d |-> q_difficulty.d]
        high == [n |-> q_difficulty.n + WindowHalf * q_difficulty.d, d |-> q_difficulty.d]
    IN  << IF RoundsInside(base_difficulty, count, index, low)
           THEN [n |-> 2 * low.n + low.d, d |-> 2 * low.d] ELSE low,
           IF RoundsInside(base_difficulty, count, index, high)
           THEN [n |-> 2 * high.n - high.d, d |-> 2 * high.d] ELSE high >>

\* outcomes of random.choice(questions); lists longer than MaxChoice are
\* explored at their first and last element only
RandomChoice(list) ==
    IF Len(list) <= MaxChoice THEN Range(list) ELSE {list[1], list[Len(list)]}

\* mutant: the widened query also drops the subject
_select_question_AnySubject(subject_id, question_type, target_kp_ids, difficulty_range, exclude_ids) ==
    LET filters == [subject_id |-> subject_id, question_type |-> question_type,
                    min_difficulty |-> difficulty_range[1],
                    max_difficulty |-> difficulty_range[2],
                    exclude_ids |-> exclude_ids, knowledge_point_ids |-> <<>>]
        restricted == search_questions([filters EXCEPT !.knowledge_point_ids = target_kp_ids])
        widened == search_questions([filters EXCEPT !.subject_id = NoSubject])
    IN  IF target_kp_ids # <<>> /\ restricted # <<>>
        THEN {[question |-> q, n_queries |-> 1, restricted |-> TRUE] :
                 q \in RandomChoice(restricted)}
        ELSE LET n == IF target_kp_ids # <<>> THEN 2 ELSE 1 IN
             IF widened # <<>>
             THEN {[question |-> q, n_queries |-> n, restricted |-> FALSE] :
                      q \in RandomChoice(widened)}
             ELSE {[question |-> NoQuestion, n_queries |-> n, restricted |-> FALSE]}

\* mutant: escalation, a further query without the difficulty bounds after an
\* empty unrestricted one
_select_question_Escalating(subject_id, question_type, target_kp_ids, difficulty_range, exclude_ids) ==
    LET filters == [subject_id |-> subject_id, question_type |-> question_type,
                    min_difficulty |-> difficulty_range[1],
                    max_difficulty |-> difficulty_range[2],
                    exclude_ids |-> exclude_ids, knowledge_point_ids |-> <<>>]
        restricted == search_questions([filters EXCEPT !.knowledge_point_ids = target_kp_ids])
        widened == search_questions(filters)
        unbounded == search_questions([filters EXCEPT !.min_difficulty = NoBound,
                                                      !.max_difficulty = NoBound])
    IN  IF target_kp_ids # <<>> /\ restricted # <<>>
        THEN {[question |-> q, n_queries |-> 1, restricted |-> TRUE] :
                 q \in RandomChoice(restricted)}
        ELSE LET n == IF target_kp_ids # <<>> THEN 2 ELSE 1 IN
             IF widened # <<>>
             THEN {[question |-> q, n_queries |-> n, restricted |-> FALSE] :
                      q \in RandomChoice(widened)}
             ELSE IF unbounded # <<>>
             THEN {[question |-> q, n_queries |-> n + 1, restricted |-> FALSE] :
                      q \in RandomChoice(unbounded)}
             ELSE {[question |-> NoQuestion, n_queries |-> n + 1, restricted |-> FALSE]}

\* mutant: no second query after an empty restricted one
_select_question_NoFallback(subject_id, question_type, target_kp_ids, difficulty_range, exclude_ids) ==
    LET filters == [subject_id |-> subject_id, question_type |-> question_type,
                    min_difficulty |-> difficulty_range[1],
                    max_difficulty |-> difficulty_range[2],
                    exclude_ids |-> exclude_ids, knowledge_point_ids |-> <<>>]
        found == search_questions([filters EXCEPT !.knowledge_point_ids = target_kp_ids])
    IN  IF found # <<>>
        THEN {[question |-> q, n_queries |-> 1, restricted |-> target_kp_ids # <<>>] :
                 q \in RandomChoice(found)}
        ELSE {[question |-> NoQuestion, n_queries |-> 1, restricted |-> FALSE]}

\* outcomes of _select_question: the question returned (NoQuestion for None),
\* the number of queries issued and whether the restricted query supplied it
_select_question(subject_id, question_type, target_kp_ids, difficulty_range, exclude_ids) ==
    LET filters == [subject_id |-> subject_id, question_type |-> question_type,
                    min_difficulty |-> difficulty_range[1],
                    max_difficulty |-> difficulty_range[2],
                    exclude_ids |-> exclude_ids, knowledge_point_ids |-> <<>>]
        restricted == search_questions([filters EXCEPT !.knowledge_point_ids = target_kp_ids])
        widened == search_questions(filters)
    IN  IF target_kp_ids # <<>> /\ restricted # <<>>
        THEN {[question |-> q, n_queries |-> 1, restricted |-> TRUE] :
                 q \in RandomChoice(restricted)}
        ELSE LET n == IF target_kp_ids # <<>> THEN 2 ELSE 1 IN
             IF widened # <<>>
             THEN {[question |-> q, n_queries |-> n, restricted |-> FALSE] :
                      q \in RandomChoice(widened)}
             ELSE {[question |-> NoQuestion, n_queries |-> n, restricted |-> FALSE]}

-----------------------------------------------------------------------------
(* IntelligentExamGenerator: statistics *)

EasyBelow == 40            \* d < 0.4
HardFrom == 70             \* d >= 0.7
LowCoverage == 50          \* coverage_rate < 0.5
GoodCoverage == 70         \* coverage_rate >= 0.7

\* round(n/d, 2) of a value given in hundredths: the nearest integer, either
\* neighbour on an exact tie (the float that is rounded need not be the tie)
RoundOutcomes(n, d) ==
    LET q == n \div d
        r == n % d
    IN  IF 2 * r < d THEN {q} ELSE IF 2 * r > d THEN {q + 1} ELSE {q, q + 1}

\* round(n/d, 2) where a tie n/d is a binary fraction: half to even
RoundHalfEven(n, d) ==
    LET q == n \div d
        r == n % d
    IN  IF 2 * r < d THEN q ELSE IF 2 * r > d THEN q + 1
        ELSE IF q % 2 = 0 THEN q ELSE q + 1

\* mutant: a difficulty of exactly 0.4 or 0.7 is counted in both neighbours
Buckets_Overlapping(qs) ==
    [easy |-> Len(SelectSeq(qs, LAMBDA q : q.difficulty <= EasyBelow)),
     medium |-> Len(SelectSeq(qs, LAMBDA q : EasyBelow <= q.difficulty /\ q.difficulty <= HardFrom)),
     hard |-> Len(SelectSeq(qs, LAMBDA q : q.difficulty >= HardFrom))]

Buckets(qs) ==
    [easy |-> Len(SelectSeq(qs, LAMBDA q : q.difficulty < EasyBelow)),
     medium |-> Len(SelectSeq(qs, LAMBDA q : EasyBelow <= q.difficulty /\ q.difficulty < HardFrom)),
     hard |-> Len(SelectSeq(qs, LAMBDA q : q.difficulty >= HardFrom))]

\* the outcomes of _calculate_difficulty_stats; an empty exam has no buckets
_calculate_difficulty_stats(qs) ==
    IF qs = <<>> THEN {[average |-> 0, distribution |-> <<>>]}
    ELSE {[average |-> avg, distribution |-> Buckets(qs)] :
             avg \in RoundOutcomes(SumSeq([k \in DOMAIN qs |-> qs[k].difficulty]), Len(qs))}

\* mutant: every link of a selected question to a weak point is counted
_calculate_weakness_coverage_PerLink(qs, kp_ids) ==
    IF kp_ids = <<>> THEN [covered_count |-> 0, total_count |-> 0, coverage_rate |-> 0]
    ELSE LET hits == SumSeq([k \in DOMAIN qs |->
                        Len(SelectSeq(get_question_knowledge_points(qs[k].id),
                                      LAMBDA kp : kp.id \in Range(kp_ids)))])
         IN  [covered_count |-> hits,
              total_count |-> Len(kp_ids),
              coverage_rate |-> RoundHalfEven(100 * hits, Len(kp_ids))]

_calculate_weakness_coverage(qs, kp_ids) ==
    IF kp_ids = <<>> THEN [covered_count |-> 0, total_count |-> 0, coverage_rate |-> 0]
    ELSE LET covered_weak_kps ==
                 {kp_id \in Range(kp_ids) :
                     \E k \in DOMAIN qs :
                         \E m \in DOMAIN get_question_knowledge_points(qs[k].id) :
                             get_question_knowledge_points(qs[k].id)[m].id = kp_id}
         IN  [covered_count |-> Cardinality(covered_weak_kps),
              total_count |-> Len(kp_ids),
              coverage_rate |-> RoundHalfEven(100 * Cardinality(covered_weak_kps), Len(kp_ids))]

\* mutant: a coverage of exactly one half counts as low
_generate_recommendations_InclusiveLow(qs, weak, coverage) ==
    IF Len(qs) = 0 THEN <<"bank_insufficient">>
    ELSE (IF coverage.coverage_rate <= LowCoverage /\ weak # <<>> THEN <<"under_coverage">>
          ELSE IF coverage.coverage_rate >= GoodCoverage THEN <<"good_targeting">>
          ELSE <<>>)
         \o
         (IF 2 * Buckets(qs).easy > Len(qs) THEN <<"too_easy">>
          ELSE IF 2 * Buckets(qs).hard > Len(qs) THEN <<"too_hard">>
          ELSE <<>>)

\* mutant: one half of the questions in a bucket is enough
_generate_recommendations_FromHalf(qs, weak, coverage) ==
    IF Len(qs) = 0 THEN <<"bank_insufficient">>
    ELSE (IF coverage.coverage_rate < LowCoverage /\ weak # <<>> THEN <<"under_coverage">>
          ELSE IF coverage.coverage_rate >= GoodCoverage THEN <<"good_targeting">>
          ELSE <<>>)
         \o
         (IF 2 * Buckets(qs).easy >= Len(qs) THEN <<"too_easy">>
          ELSE IF 2 * Buckets(qs).hard >= Len(qs) THEN <<"too_hard">>
          ELSE <<>>)

\* mutant: the empty exam is not reported
_generate_recommendations_NoEmptyCheck(qs, weak, coverage) ==
    (IF coverage.coverage_rate < LowCoverage /\ weak # <<>> THEN <<"under_coverage">>
     ELSE IF coverage.coverage_rate >= GoodCoverage THEN <<"good_targeting">>
     ELSE <<>>)
    \o
    (IF 2 * Buckets(qs).easy > Len(qs) THEN <<"too_easy">>
     ELSE IF 2 * Buckets(qs).hard > Len(qs) THEN <<"too_hard">>
     ELSE <<>>)

_generate_recommendations(qs, weak, coverage) ==
    IF Len(qs) = 0 THEN <<"bank_insufficient">>
    ELSE (IF coverage.coverage_rate < LowCoverage /\ weak # <<>> THEN <<"under_coverage">>
          ELSE IF coverage.coverage_rate >= GoodCoverage THEN <<"good_targeting">>
          ELSE <<>>)
         \o
         (IF 2 * Buckets(qs).easy > Len(qs) THEN <<"too_easy">>
          ELSE IF 2 * Buckets(qs).hard > Len(qs) THEN <<"too_hard">>
          ELSE <<>>)

-----------------------------------------------------------------------------
(* generate_targeted_exam as a run: StartRun, one SelectSlot per slot, Finish *)

NoSlot == [q_type |-> NoType, index |-> 0, count |-> 0, target |-> [n |-> 0, d |-> 1],
           use_weakness |-> FALSE, restricted |-> FALSE, question |-> NoQuestion,
           n_queries |-> 0]

\* for q_type, config in question_distribution.items(): for i in range(count):
\* the next (block, i) at or after the given one that names a slot
RECURSIVE LoopAt(_, _, _)
LoopAt(dist, b, k) ==
    IF b > Len(dist) THEN <<b, 0>>
    ELSE IF k >= dist[b].count THEN LoopAt(dist, b + 1, 0)
    ELSE <<b, k>>

\* mutant: every entry of the ranking is considered
WeakKpIds_Unbounded(w) == [k \in DOMAIN w |-> w[k].knowledge_point_id]

\* [w['knowledge_point_id'] for w in weaknesses[:15]]
WeakKpIds(w) == [k \in DOMAIN Prefix(w, WeakLimit) |-> w[k].knowledge_point_id]

\* mutant: the exclusion set is kept by the generator object and goes on from
\* the questions of the run that returned last
StartRun_KeepingExclusions(a) ==
    /\ pc = "idle"
    /\ LET w == analyze_student_weaknesses(a.student_id, a.subject_id)
           dist == IF a.question_distribution = NoTemplate
                   THEN _get_default_distribution(a.subject_id, a.total_score)
                   ELSE a.question_distribution
       IN  /\ weaknesses' = w
           /\ weak_kp_ids' = WeakKpIds(w)
           /\ question_distribution' = dist
           /\ block' = LoopAt(dist, 1, 0)[1]
           /\ i' = LoopAt(dist, 1, 0)[2]
           /\ pc' = IF LoopAt(dist, 1, 0)[1] > Len(dist) THEN "stats" ELSE "select"
    /\ args' = a
    /\ selected_questions' = <<>>
    /\ used_q_ids' = IF analysis.call = "generate_targeted_exam"
                     THEN [k \in DOMAIN analysis.value.questions |->
                              analysis.value.questions[k].id]
                     ELSE <<>>
    /\ slot' = NoSlot
    /\ queries' = 0
    /\ result' = NoResult
    /\ UNCHANGED <<dbvars, analysis, targets>>

StartRun(a) ==
    /\ pc = "idle"
    /\ LET w == analyze_student_weaknesses(a.student_id, a.subject_id)
           dist == IF a.question_distribution = NoTemplate
                   THEN _get_default_distribution(a.subject_id, a.total_score)
                   ELSE a.question_distribution
       IN  /\ weaknesses' = w
           /\ weak_kp_ids' = WeakKpIds(w)
           /\ question_distribution' = dist
           /\ block' = LoopAt(dist, 1, 0)[1]
           /\ i' = LoopAt(dist, 1, 0)[2]
           /\ pc' = IF LoopAt(dist, 1, 0)[1] > Len(dist) THEN "stats" ELSE "select"
    /\ args' = a
    /\ selected_questions' = <<>>
    /\ used_q_ids' = <<>>
    /\ slot' = NoSlot
    /\ queries' = 0
    /\ result' = NoResult
    /\ UNCHANGED <<dbvars, analysis, targets>>

\* mutant: the draw alone decides, whatever focus_on_weaknesses says
UseWeakness_IgnoringFocus(focus, kp_ids, draw) == Len(kp_ids) > 0 /\ draw

\* focus_on_weaknesses and len(weak_kp_ids) > 0 and random.random() < 0.7
UseWeakness(focus, kp_ids, draw) == focus /\ Len(kp_ids) > 0 /\ draw

SelectSlot ==
    /\ pc = "select"
    /\ LET q_type == question_distribution[block].q_type
           count == question_distribution[block].count
           q_difficulty == _get_question_difficulty_target(
                               i, count, _get_difficulty_target(args.difficulty_level))
           window == slot_difficulty_range(i, count, _get_difficulty_target(args.difficulty_level))
       IN  \E draw \in BOOLEAN :     \* random.random() < 0.7
             LET use_weakness == UseWeakness(args.focus_on_weaknesses, weak_kp_ids, draw) IN
             \E out \in _select_question(args.subject_id, q_type,
                                         IF use_weakness THEN weak_kp_ids ELSE <<>>,
                                         window, used_q_ids) :
                /\ selected_questions' = IF out.question # NoQuestion
                                         THEN Append(selected_questions, out.question)
                                         ELSE selected_questions
                /\ used_q_ids' = IF out.question # NoQuestion
                                 THEN Append(used_q_ids, out.question.id)
                                 ELSE used_q_ids
                /\ slot' = [q_type |-> q_type, index |-> i, count |-> count,
                            target |-> q_difficulty, use_weakness |-> use_weakness,
                            restricted |-> out.restricted,
                            question |-> out.question, n_queries |-> out.n_queries]
                /\ queries' = queries + out.n_queries
    /\ block' = LoopAt(question_distribution, block, i + 1)[1]
    /\ i' = LoopAt(question_distribution, block, i + 1)[2]
    /\ pc' = IF LoopAt(question_distribution, block, i + 1)[1] > Len(question_distribution)
             THEN "stats" ELSE "select"
    /\ UNCHANGED <<dbvars, args, weaknesses, weak_kp_ids, question_distribution,
                   result, analysis, targets>>

\* mutant: every point value is added once, however many questions carry it
actual_total_DistinctValues(qs) ==
    LET values == {qs[k].score : k \in DOMAIN qs}
        RECURSIVE SumSet(_)
        SumSet(S) == IF S = {} THEN 0
                     ELSE LET x == CHOOSE y \in S : TRUE IN x + SumSet(S \ {x})
    IN  SumSet(values)

\* mutant: the total is the one the template plans, count * score_each over
\* its entries
actual_total_Planned(qs) ==
    SumSeq([k \in DOMAIN question_distribution |->
               question_distribution[k].count * question_distribution[k].score_each])

\* sum(q.score for q in selected_questions)
actual_total(qs) == SumSeq([k \in DOMAIN qs |-> qs[k].score])

Finish ==
    /\ pc = "stats"
    /\ \E difficulty_stats \in _calculate_difficulty_stats(selected_questions) :
         LET weakness_coverage == _calculate_weakness_coverage(selected_questions, weak_kp_ids)
         IN  result' = [returned |-> TRUE, questions |-> selected_questions,
                        total_score |-> actual_total(selected_questions),
                        actual_count |-> Len(selected_questions),
                        difficulty_stats |-> difficulty_stats,
                        weakness_coverage |-> weakness_coverage,
                        recommendations |-> _generate_recommendations(
                                                selected_questions, weaknesses, weakness_coverage),
                        weaknesses_analyzed |-> Prefix(weaknesses, AnalyzedLimit)]
    /\ pc' = "done"
    /\ UNCHANGED <<dbvars, args, weaknesses, weak_kp_ids, question_distribution, block, i,
                   selected_questions, used_q_ids, slot, queries, analysis, targets>>

Return ==
    /\ pc = "done"
    /\ pc' = "idle"
    /\ args' = NoArgs
    /\ weaknesses' = <<>>
    /\ weak_kp_ids' = <<>>
    /\ question_distribution' = <<>>
    /\ block' = 0
    /\ i' = 0
    /\ selected_questions' = <<>>
    /\ used_q_ids' = <<>>
    /\ slot' = NoSlot
    /\ queries' = 0
    /\ result' = NoResult
    /\ UNCHANGED <<dbvars, analysis, targets>>

\* Return, the caller keeping what the call returned and the arguments it gave
ReturnRecorded ==
    /\ pc = "done"
    /\ analysis' = [call |-> "generate_targeted_exam", student_id |-> args.student_id,
                    subject_id |-> args.subject_id, answers |-> student_answers,
                    args |-> args, value |-> result]
    /\ pc' = "idle"
    /\ args' = NoArgs
    /\ weaknesses' = <<>>
    /\ weak_kp_ids' = <<>>
    /\ question_distribution' = <<>>
    /\ block' = 0
    /\ i' = 0
    /\ selected_questions' = <<>>
    /\ used_q_ids' = <<>>
    /\ slot' = NoSlot
    /\ queries' = 0
    /\ result' = NoResult
    /\ UNCHANGED <<dbvars, targets>>

-----------------------------------------------------------------------------
(* TeacherToolsView._generate_exam: what the handler does with a result *)

\* the handler formats result['difficulty_stats']['distribution'][...] for the
\* three buckets; a missing key raises KeyError
_generate_exam_display(r) ==
    IF {"easy", "medium", "hard"} \subseteq DOMAIN r.difficulty_stats.distribution
    THEN "shown"
    ELSE "KeyError"

\* TeacherToolsView._display_generated_questions: the weak mark of every row
\* of the table, is_weak = any(kp.id in weak_kp_ids for kp in kps), the set
\* being taken from result['weaknesses_analyzed']
_display_generated_questions(r) ==
    LET shown_kp_ids == {r.weaknesses_analyzed[k].knowledge_point_id :
                            k \in DOMAIN r.weaknesses_analyzed}
    IN  [k \in DOMAIN r.questions |->
            \E m \in DOMAIN get_question_knowledge_points(r.questions[k].id) :
                get_question_knowledge_points(r.questions[k].id)[m].id \in shown_kp_ids]

-----------------------------------------------------------------------------
(* Other callers: the analysis calls and DatabaseManager.add_student_answer *)

NoAnalysis == [call |-> "none", student_id |-> 0, subject_id |-> NoSubject,
               answers |-> <<>>, value |-> <<>>]

\* mutant: the analysis removes the rows it has read
Analyze_Consuming(student_id, subject_id) ==
    /\ pc = "idle"
    /\ analysis' = [call |-> "analyze_student_weaknesses", student_id |-> student_id,
                    subject_id |-> subject_id, answers |-> student_answers,
                    value |-> analyze_student_weaknesses(student_id, subject_id)]
    /\ student_answers' = SelectSeq(student_answers, LAMBDA a : a.student_id # student_id)
    /\ UNCHANGED <<questions, knowledge_points, question_knowledge, runvars, targets>>

Analyze(student_id, subject_id) ==
    /\ pc = "idle"
    /\ analysis' = [call |-> "analyze_student_weaknesses", student_id |-> student_id,
                    subject_id |-> subject_id, answers |-> student_answers,
                    value |-> analyze_student_weaknesses(student_id, subject_id)]
    /\ UNCHANGED <<dbvars, runvars, targets>>

GetMastery(student_id) ==
    /\ pc = "idle"
    /\ analysis' = [call |-> "get_knowledge_point_mastery", student_id |-> student_id,
                    subject_id |-> NoSubject, answers |-> student_answers,
                    value |-> get_knowledge_point_mastery(student_id)]
    /\ UNCHANGED <<dbvars, runvars, targets>>

add_student_answer(student_id, exam_id, question_id, is_correct) ==
    /\ pc = "idle"
    /\ student_answers' = Append(student_answers,
           [id |-> Len(student_answers) + 1, student_id |-> student_id, exam_id |-> exam_id,
            question_id |-> question_id, is_correct |-> is_correct])
    /\ UNCHANGED <<questions, knowledge_points, question_knowledge, runvars, analysis, targets>>

-----------------------------------------------------------------------------
(* Stored data the services are constructed over *)

Students == {1, 2}
Subjects == {1, 2}
Exams == {1}
Levels == {"easy", "medium", "hard"}

\* knowledge points 1..3 of subject 1, 4..5 of subject 2
KnowledgePointRows ==
    << [id |-> 1, subject_id |-> 1, level |-> 1], [id |-> 2, subject_id |-> 1, level |-> 2],
       [id |-> 3, subject_id |-> 1, level |-> 1], [id |-> 4, subject_id |-> 2, level |-> 1],
       [id |-> 5, subject_id |-> 2, level |-> 3] >>

\* add_question followed by link_question_to_knowledge for each of its points
Q(subject_id, question_type, difficulty, score, kps) ==
    [subject_id |-> subject_id, question_type |-> question_type,
     difficulty |-> difficulty, score |-> score, kps |-> kps]

QuestionRows(cat) ==
    [k \in DOMAIN cat |-> [id |-> k, subject_id |-> cat[k].subject_id,
                           question_type |-> cat[k].question_type,
                           difficulty |-> cat[k].difficulty, score |-> cat[k].score]]

LinkRows(cat) ==
    Concat([k \in DOMAIN cat |->
               [m \in DOMAIN cat[k].kps |->
                   [question_id |-> k, knowledge_point_id |-> cat[k].kps[m]]]])

\* the sub-sequences of a sequence
RECURSIVE SubSeqs(_)
SubSeqs(s) ==
    IF s = <<>> THEN {<<>>}
    ELSE LET rest == SubSeqs(Tail(s)) IN rest \cup {<<Head(s)>> \o r : r \in rest}

Catalogue ==
    << Q(1, "choice", 50, 4, <<1>>),
       Q(1, "choice", 50, 60, <<1, 2>>),
       Q(1, "choice", 30, 4, <<>>),
       Q(2, "choice", 50, 4, <<4>>),
       Q(1, "fill_in", 70, 5, <<2>>) >>

IdleRun ==
    /\ pc = "idle"
    /\ args = NoArgs
    /\ weaknesses = <<>>
    /\ weak_kp_ids = <<>>
    /\ question_distribution = <<>>
    /\ block = 0
    /\ i = 0
    /\ selected_questions = <<>>
    /\ used_q_ids = <<>>
    /\ slot = NoSlot
    /\ queries = 0
    /\ result = NoResult
    /\ analysis = NoAnalysis
    /\ targets = <<>>

-----------------------------------------------------------------------------
(* Spec: composer runs over every bank drawn from the catalogue *)

CustomTemplates ==
    { << [q_type |-> "choice", count |-> 2, score_each |-> 4],
         [q_type |-> "fill_in", count |-> 1, score_each |-> 5] >>,
      << [q_type |-> "fill_in", count |-> 0, score_each |-> 5],
         [q_type |-> "choice", count |-> 3, score_each |-> 10] >> }

Calls ==
    [student_id : {1}, subject_id : Subjects, total_score : {150, 100, 50},
     focus_on_weaknesses : BOOLEAN, difficulty_level : Levels,
     question_distribution : {NoTemplate}]
    \cup
    [student_id : {1}, subject_id : Subjects, total_score : {100},
     focus_on_weaknesses : BOOLEAN, difficulty_level : Levels,
     question_distribution : CustomTemplates]

Init ==
    /\ \E cat \in SubSeqs(Catalogue) :
          /\ questions = QuestionRows(cat)
          /\ question_knowledge = LinkRows(cat)
    /\ knowledge_points = KnowledgePointRows
    /\ student_answers = <<>>
    /\ IdleRun

Start == \E a \in Calls : StartRun(a)

AddAnswer ==
    /\ Len(student_answers) < MaxRunAnswers
    /\ \E q \in DOMAIN questions, c \in BOOLEAN : add_student_answer(1, 1, q, c)

Next == Start \/ SelectSlot \/ Finish \/ Return \/ AddAnswer

Spec == Init /\ [][Next]_vars

-----------------------------------------------------------------------------
(* SpecB: scenario B, the bank of 12 choice, 4 fill-in and 6 short-answer *)
(* questions of subject 1, all of difficulty 0.5                          *)

Repeat(x, k) == [m \in 1..k |-> x]

ScenarioBCatalogue ==
    Repeat(Q(1, "choice", 50, 4, <<>>), 12)
    \o Repeat(Q(1, "fill_in", 50, 5, <<>>), 4)
    \o Repeat(Q(1, "short_answer", 50, 15, <<>>), 6)

ScenarioBCall ==
    [student_id |-> 1, subject_id |-> 1, total_score |-> 150, focus_on_weaknesses |-> FALSE,
     difficulty_level |-> "medium", question_distribution |-> NoTemplate]

InitB ==
    /\ questions = QuestionRows(ScenarioBCatalogue)
    /\ question_knowledge = <<>>
    /\ knowledge_points = KnowledgePointRows
    /\ student_answers = <<>>
    /\ IdleRun

StartB == StartRun(ScenarioBCall)

NextB == StartB \/ SelectSlot \/ Finish \/ Return

SpecB == InitB /\ [][NextB]_vars

-----------------------------------------------------------------------------
(* SpecW: the analysis calls over attempt histories *)

\* one question per knowledge point, and question 6 linked to point 5 and then
\* to point 1
AnalysisCatalogue ==
    << Q(1, "choice", 50, 4, <<1>>), Q(1, "choice", 50, 4, <<2>>),
       Q(1, "choice", 50, 4, <<3>>), Q(2, "choice", 50, 4, <<4>>),
       Q(2, "choice", 50, 4, <<5>>), Q(1, "choice", 50, 4, <<5, 1>>) >>

Attempt(student_id, question_id, is_correct) ==
    [student_id |-> student_id, exam_id |-> 1, question_id |-> question_id,
     is_correct |-> is_correct]

\* the rows of a stored history: its k-th attempt was answered in exam k
AnswerRows(attempts) ==
    [k \in DOMAIN attempts |->
        [id |-> k, student_id |-> attempts[k].student_id, exam_id |-> k,
         question_id |-> attempts[k].question_id, is_correct |-> attempts[k].is_correct]]

\* `right` correct attempts and then `wrong` incorrect ones of student 1 on question q
Attempts(q, right, wrong) ==
    Repeat(Attempt(1, q, TRUE), right) \o Repeat(Attempt(1, q, FALSE), wrong)

\* scenario A: 20 graded attempts over 5 knowledge points with the ratios
\* 1/4, 2/4, 0/4, 3/4 and 4/4
ScenarioAHistory ==
    Attempts(1, 1, 3) \o Attempts(2, 2, 2) \o Attempts(3, 0, 4)
    \o Attempts(4, 3, 1) \o Attempts(5, 4, 0)

\* 20 attempts on knowledge point 1 with ratio 13/20 (exactly 0.65), 10 on
\* point 2 with ratio 6/10 and 2 on point 3 with ratio 1/2
BoundaryHistory == Attempts(1, 13, 7) \o Attempts(2, 6, 4) \o Attempts(3, 1, 1)

StoredHistories == {<<>>, ScenarioAHistory, BoundaryHistory}

InitW ==
    /\ questions = QuestionRows(AnalysisCatalogue)
    /\ question_knowledge = LinkRows(AnalysisCatalogue)
    /\ knowledge_points = KnowledgePointRows
    /\ \E h \in StoredHistories : student_answers = AnswerRows(h)
    /\ IdleRun

AnalyzeW == \E s \in Students, subj \in Subjects \cup {NoSubject} : Analyze(s, subj)

GetMasteryW == \E s \in Students : GetMastery(s)

AddAnswerW ==
    /\ Len(student_answers) < MaxAnswers
    /\ \E s \in Students, q \in DOMAIN questions, c \in BOOLEAN :
          add_student_answer(s, 1, q, c)

NextW == AnalyzeW \/ GetMasteryW \/ AddAnswerW

SpecW == InitW /\ [][NextW]_vars

-----------------------------------------------------------------------------
(* SpecT: the difficulty targets of one block, slot by slot *)

InitT ==
    /\ questions = <<>>
    /\ question_knowledge = <<>>
    /\ knowledge_points = KnowledgePointRows
    /\ student_answers = <<>>
    /\ pc = "select"
    /\ \E level \in Levels \cup {"unknown"}, count \in 1..MaxCount :
          /\ args = [NoArgs EXCEPT !.difficulty_level = level]
          /\ question_distribution = << [q_type |-> "choice", count |-> count, score_each |-> 4] >>
    /\ weaknesses = <<>>
    /\ weak_kp_ids = <<>>
    /\ block = 1
    /\ i = 0
    /\ selected_questions = <<>>
    /\ used_q_ids = <<>>
    /\ slot = NoSlot
    /\ queries = 0
    /\ result = NoResult
    /\ analysis = NoAnalysis
    /\ targets = <<>>

\* for i in range(count): q_difficulty = self._get_question_difficulty_target(...)
ComputeTarget ==
    /\ pc = "select"
    /\ i < question_distribution[block].count
    /\ targets' = Append(targets,
                     _get_question_difficulty_target(
                         i, question_distribution[block].count,
                         _get_difficulty_target(args.difficulty_level)))
    /\ i' = i + 1
    /\ UNCHANGED <<dbvars, pc, args, weaknesses, weak_kp_ids, question_distribution, block,
                   selected_questions, used_q_ids, slot, queries, result, analysis>>

NextT == ComputeTarget

SpecT == InitT /\ [][NextT]_vars

-----------------------------------------------------------------------------
(* SpecP: analysis calls, composer runs and new answers in any order, over *)
(* the whole catalogue                                                     *)

InitP ==
    /\ questions = QuestionRows(Catalogue)
    /\ question_knowledge = LinkRows(Catalogue)
    /\ knowledge_points = KnowledgePointRows
    /\ student_answers = <<>>
    /\ IdleRun

StartP ==
    \E a \in Calls : a.question_distribution # NoTemplate /\ StartRun(a)

AnalyzeP == \E subj \in Subjects \cup {NoSubject} : Analyze(1, subj)

GetMasteryP == GetMastery(1)

AddAnswerP ==
    /\ Len(student_answers) < MaxRunAnswers
    /\ \E s \in Students, q \in DOMAIN questions, c \in BOOLEAN :
          add_student_answer(s, 1, q, c)

NextP == StartP \/ SelectSlot \/ Finish \/ Return \/ AnalyzeP \/ GetMasteryP \/ AddAnswerP

SpecP == InitP /\ [][NextP]_vars

-----------------------------------------------------------------------------
(* SpecQ: one search_questions call, its filters in args, over every bank *)
(* drawn from the catalogue                                               *)

SearchFilters ==
    [subject_id : Subjects \cup {NoSubject},
     question_type : {NoType, "choice", "fill_in"},
     min_difficulty : {NoBound, [n |-> 0, d |-> 1], [n |-> 50, d |-> 1], [n |-> 155, d |-> 3]},
     max_difficulty : {NoBound, [n |-> 50, d |-> 1], [n |-> 85, d |-> 3]},
     exclude_ids : {<<>>, <<1>>, <<3, 2>>},
     knowledge_point_ids : {<<>>, <<1>>, <<1, 2>>, <<2, 4>>, <<3>>}]

InitQ ==
    /\ \E cat \in SubSeqs(Catalogue) :
          /\ questions = QuestionRows(cat)
          /\ question_knowledge = LinkRows(cat)
    /\ knowledge_points = KnowledgePointRows
    /\ student_answers = <<>>
    /\ pc = "idle"
    /\ args \in SearchFilters
    /\ weaknesses = <<>>
    /\ weak_kp_ids = <<>>
    /\ question_distribution = <<>>
    /\ block = 0
    /\ i = 0
    /\ selected_questions = <<>>
    /\ used_q_ids = <<>>
    /\ slot = NoSlot
    /\ queries = 0
    /\ result = NoResult
    /\ analysis = NoAnalysis
    /\ targets = <<>>

Search ==
    /\ pc = "idle"
    /\ analysis = NoAnalysis
    /\ analysis' = [call |-> "search_questions", student_id |-> 0, subject_id |-> NoSubject,
                    answers |-> <<>>, value |-> search_questions(args)]
    /\ UNCHANGED <<dbvars, runvars, targets>>

NextQ == Search

SpecQ == InitQ /\ [][NextQ]_vars

-----------------------------------------------------------------------------
(* SpecE: composer runs over banks whose questions lie on window edges *)

EdgeCatalogue ==
    << Q(1, "choice", 45, 4, <<1>>),
       Q(1, "choice", 65, 4, <<>>),
       Q(1, "choice", 15, 4, <<2>>),
       Q(1, "fill_in", 30, 5, <<>>) >>

EdgeTemplates ==
    { << [q_type |-> "choice", count |-> 1, score_each |-> 4] >>,
      << [q_type |-> "choice", count |-> 2, score_each |-> 4],
         [q_type |-> "fill_in", count |-> 1, score_each |-> 5] >> }

EdgeCalls ==
    [student_id : {1}, subject_id : {1}, total_score : {100},
     focus_on_weaknesses : BOOLEAN, difficulty_level : Levels,
     question_distribution : EdgeTemplates]

InitE ==
    /\ \E cat \in SubSeqs(EdgeCatalogue) :
          /\ questions = QuestionRows(cat)
          /\ question_knowledge = LinkRows(cat)
    /\ knowledge_points = KnowledgePointRows
    /\ student_answers = <<>>
    /\ IdleRun

StartE == \E a \in EdgeCalls : StartRun(a)

AddAnswerE ==
    /\ Len(student_answers) < MaxRunAnswers
    /\ \E q \in DOMAIN questions : add_student_answer(1, 1, q, FALSE)

NextE == StartE \/ SelectSlot \/ Finish \/ Return \/ AddAnswerE

SpecE == InitE /\ [][NextE]_vars

-----------------------------------------------------------------------------
(* SpecK: composer runs for a student with up to 17 weak knowledge points *)

ManyKnowledgePointRows == [k \in 1..17 |-> [id |-> k, subject_id |-> 1, level |-> 1]]

\* question 1 is linked to the points 1..8, question 2 to 9..15, question 3 to
\* 16 and 17, question 4 to 16
ManyPointsCatalogue ==
    << Q(1, "choice", 30, 4, <<1, 2, 3, 4, 5, 6, 7, 8>>),
       Q(1, "choice", 50, 4, <<9, 10, 11, 12, 13, 14, 15>>),
       Q(1, "choice", 50, 4, <<16, 17>>),
       Q(1, "choice", 30, 4, <<16>>) >>

\* histories of student 1 with 0, 15, 16 and 17 weak points: in the third the
\* point 16 is met first and ties with the others at rate 0, in the fourth the
\* points 16 and 17 are met first and have the highest rate, 1/2
ManyPointsHistories ==
    { <<>>,
      Attempts(1, 0, 1) \o Attempts(2, 0, 1),
      Attempts(4, 0, 1) \o Attempts(1, 0, 1) \o Attempts(2, 0, 1),
      Attempts(3, 1, 1) \o Attempts(1, 0, 1) \o Attempts(2, 0, 1) }

InitK ==
    /\ questions = QuestionRows(ManyPointsCatalogue)
    /\ question_knowledge = LinkRows(ManyPointsCatalogue)
    /\ knowledge_points = ManyKnowledgePointRows
    /\ \E h \in ManyPointsHistories : student_answers = AnswerRows(h)
    /\ IdleRun

StartK == \E a \in Calls : a.question_distribution # NoTemplate /\ StartRun(a)

NextK == StartK \/ SelectSlot \/ Finish \/ Return

SpecK == InitK /\ [][NextK]_vars

-----------------------------------------------------------------------------
(* SpecS: composer runs over a bank with difficulties at and next to the *)
(* bucket limits, for students with zero to three weak knowledge points   *)

StatsCatalogue ==
    << Q(1, "choice", 39, 4, <<1>>),
       Q(1, "choice", 39, 4, <<>>),
       Q(1, "choice", 40, 4, <<2>>),
       Q(1, "choice", 69, 4, <<>>),
       Q(1, "choice", 70, 4, <<3>>),
       Q(1, "choice", 70, 4, <<>>) >>

StatsHistories ==
    { <<>>,
      Attempts(1, 0, 1),
      Attempts(1, 0, 1) \o Attempts(3, 0, 1),
      Attempts(1, 0, 1) \o Attempts(3, 0, 1) \o Attempts(5, 0, 1) }

StatsCalls ==
    [student_id : {1}, subject_id : {1}, total_score : {100},
     focus_on_weaknesses : BOOLEAN, difficulty_level : Levels,
     question_distribution :
        { << [q_type |-> "choice", count |-> c, score_each |-> 4] >> : c \in 2..4 }]

InitS ==
    /\ questions = QuestionRows(StatsCatalogue)
    /\ question_knowledge = LinkRows(StatsCatalogue)
    /\ knowledge_points = KnowledgePointRows
    /\ \E h \in StatsHistories : student_answers = AnswerRows(h)
    /\ IdleRun

StartS == \E a \in StatsCalls : StartRun(a)

NextS == StartS \/ SelectSlot \/ Finish \/ Return

SpecS == InitS /\ [][NextS]_vars

-----------------------------------------------------------------------------
(* SpecR: composer runs one after another on one generator, for two students *)
(* and with templates that differ in score_each only                         *)

RepeatHistories ==
    { <<>>, << Attempt(1, 1, FALSE), Attempt(2, 5, FALSE) >> }

RepeatTemplates ==
    { << [q_type |-> "choice", count |-> 2, score_each |-> s],
         [q_type |-> "fill_in", count |-> 2, score_each |-> 5] >> : s \in {4, 10} }

RepeatCalls ==
    [student_id : Students, subject_id : {1}, total_score : {100},
     focus_on_weaknesses : BOOLEAN, difficulty_level : Levels,
     question_distribution : RepeatTemplates]

InitR ==
    /\ questions = QuestionRows(Catalogue)
    /\ question_knowledge = LinkRows(Catalogue)
    /\ knowledge_points = KnowledgePointRows
    /\ \E h \in RepeatHistories : student_answers = AnswerRows(h)
    /\ IdleRun

StartR == \E a \in RepeatCalls : StartRun(a)

NextR == StartR \/ SelectSlot \/ Finish \/ ReturnRecorded

SpecR == InitR /\ [][NextR]_vars

-----------------------------------------------------------------------------
(* SpecF: composer runs that are carried through.  A call is sequential    *)
(* code: every iteration of its loops and the statistics after them are    *)
(* executed, which is weak fairness of SelectSlot and of Finish.           *)

FairHistories == { <<>>, << Attempt(1, 1, FALSE) >> }

FairCalls ==
    [student_id : {1}, subject_id : {1}, total_score : {100},
     focus_on_weaknesses : BOOLEAN, difficulty_level : Levels,
     question_distribution :
        { << [q_type |-> "choice", count |-> 2, score_each |-> 4],
             [q_type |-> "fill_in", count |-> 2, score_each |-> 5] >>,
          << [q_type |-> "fill_in", count |-> 0, score_each |-> 5],
             [q_type |-> "choice", count |-> 3, score_each |-> 10] >> }]

InitF ==
    /\ questions = QuestionRows(Catalogue)
    /\ question_knowledge = LinkRows(Catalogue)
    /\ knowledge_points = KnowledgePointRows
    /\ \E h \in FairHistories : student_answers = AnswerRows(h)
    /\ IdleRun

StartF == \E a \in FairCalls : StartRun(a)

NextF == StartF \/ SelectSlot \/ Finish \/ Return

SpecF == InitF /\ [][NextF]_vars /\ WF_vars(SelectSlot) /\ WF_vars(Finish)

-----------------------------------------------------------------------------
(* SpecD: composer runs whose result is displayed, for a student with up to *)
(* 12 weak knowledge points                                                 *)

\* question 1 is linked to the points 1..10, question 2 to 11 and 12,
\* question 3 to none, question 4 to 10 and 11
DisplayCatalogue ==
    << Q(1, "choice", 50, 4, <<1, 2, 3, 4, 5, 6, 7, 8, 9, 10>>),
       Q(1, "choice", 50, 4, <<11, 12>>),
       Q(1, "choice", 50, 4, <<>>),
       Q(1, "choice", 30, 4, <<10, 11>>) >>

\* histories of student 1 with 0, 10 and 12 weak points, all at rate 0; in the
\* last one the points 11 and 12 are met first
DisplayHistories ==
    { <<>>,
      Attempts(1, 0, 1),
      Attempts(1, 0, 1) \o Attempts(2, 0, 1),
      Attempts(2, 0, 1) \o Attempts(1, 0, 1) }

InitD ==
    /\ questions = QuestionRows(DisplayCatalogue)
    /\ question_knowledge = LinkRows(DisplayCatalogue)
    /\ knowledge_points = ManyKnowledgePointRows
    /\ \E h \in DisplayHistories : student_answers = AnswerRows(h)
    /\ IdleRun

StartD == \E a \in Calls : a.question_distribution # NoTemplate /\ StartRun(a)

NextD == StartD \/ SelectSlot \/ Finish \/ Return

SpecD == InitD /\ [][NextD]_vars

-----------------------------------------------------------------------------
(* Properties *)

Running == pc \in {"select", "stats", "done"}

\* C1: the questions selected by a run, while it runs and in the result it
\* returns, hold no question identifier twice.
C1_NoDuplicateQuestions ==
    /\ \A a, b \in DOMAIN selected_questions :
          a # b => selected_questions[a].id # selected_questions[b].id
    /\ pc = "done" =>
          \A a, b \in DOMAIN result.questions :
             a # b => result.questions[a].id # result.questions[b].id

\* a returned exam of three questions, two of which matched the same slots
C1_Witness ==
    /\ pc = "done"
    /\ Len(result.questions) = 3
    /\ \E a, b \in DOMAIN result.questions :
          /\ a # b
          /\ result.questions[a].question_type = result.questions[b].question_type
          /\ result.questions[a].difficulty = result.questions[b].difficulty

\* C2: a run against an empty question bank goes on to return (no step of it
\* is stuck), and what it returns has zero questions, actual total score 0
\* and a recommendation list holding the bank-insufficient message.
C2_EmptyBank ==
    questions = <<>> =>
       /\ pc = "select" => ENABLED SelectSlot
       /\ pc = "stats" => ENABLED Finish
       /\ pc = "done" =>
             /\ result.questions = <<>>
             /\ result.actual_count = 0
             /\ result.total_score = 0
             /\ result.recommendations # <<>>
             /\ "bank_insufficient" \in Range(result.recommendations)

\* a run with the weakness focus on and a custom template returned on an empty bank
C2_Witness ==
    /\ questions = <<>>
    /\ pc = "done"
    /\ args.focus_on_weaknesses
    /\ args.difficulty_level = "hard"
    /\ args.question_distribution # NoTemplate
    /\ result.returned

\* C3 as stated: in scenario B the run returns 22 questions and reports the
\* actual total score 158.
C3_Original ==
    pc = "done" => /\ Len(result.questions) = 22
                   /\ result.total_score = 158

\* the slots of the 150-point template whose window (target -+ 0.15) does not
\* hold the difficulty 0.5
ScenarioBSkipped ==
    { <<"choice", 0>>, <<"choice", 1>>, <<"choice", 11>>,
      <<"fill_in", 0>>, <<"short_answer", 0>> }

\* C3 amended: in scenario B a slot is skipped exactly when it is one of the
\* five slots whose window does not hold 0.5, and the run returns 17 questions
\* (9 choice, 3 fill-in, 5 short-answer) with the actual total score 126.
C3_ScenarioB ==
    /\ slot # NoSlot =>
          (slot.question = NoQuestion <=> <<slot.q_type, slot.index>> \in ScenarioBSkipped)
    /\ pc = "done" =>
          /\ Len(result.questions) = 17
          /\ result.actual_count = 17
          /\ result.total_score = 126
          /\ Len(SelectSeq(result.questions, LAMBDA q : q.question_type = "choice")) = 9
          /\ Len(SelectSeq(result.questions, LAMBDA q : q.question_type = "fill_in")) = 3
          /\ Len(SelectSeq(result.questions, LAMBDA q : q.question_type = "short_answer")) = 5

\* the scenario B run has returned
C3_Witness ==
    /\ pc = "done"
    /\ args = ScenarioBCall
    /\ Len(questions) = 22
    /\ result.actual_count = 17
    /\ result.total_score = 126

\* The attempt records of a student, among the rows a call read, whose question
\* is linked to a knowledge point, counted from the tables.
Linked(question_id, kp_id) ==
    \E r \in Range(question_knowledge) :
        r.question_id = question_id /\ r.knowledge_point_id = kp_id

AttemptsOn(rows, student_id, kp_id) ==
    {k \in DOMAIN rows : rows[k].student_id = student_id /\ Linked(rows[k].question_id, kp_id)}

CorrectOn(rows, student_id, kp_id) ==
    {k \in AttemptsOn(rows, student_id, kp_id) : rows[k].is_correct}

InFilter(kp_id, subject_id) ==
    subject_id # NoSubject => knowledge_points[kp_id].subject_id = subject_id

ExpectedWeak(rows, student_id, subject_id) ==
    {kp_id \in DOMAIN knowledge_points :
        /\ InFilter(kp_id, subject_id)
        /\ AttemptsOn(rows, student_id, kp_id) # {}
        /\ 100 * Cardinality(CorrectOn(rows, student_id, kp_id))
              < 65 * Cardinality(AttemptsOn(rows, student_id, kp_id))}

Analyzed == analysis.call = "analyze_student_weaknesses"
Mastered == analysis.call = "get_knowledge_point_mastery"
ListedIds == {analysis.value[k].knowledge_point_id : k \in DOMAIN analysis.value}

\* C4: the sequence analyze_student_weaknesses returns is non-decreasing in
\* mastery_rate and every entry has a mastery_rate strictly below 0.65.
C4_WeaknessOrdering ==
    Analyzed =>
       /\ \A k, m \in DOMAIN analysis.value :
             k < m => FracLeq(analysis.value[k].mastery_rate, analysis.value[m].mastery_rate)
       /\ \A k \in DOMAIN analysis.value :
             100 * analysis.value[k].mastery_rate.n < 65 * analysis.value[k].mastery_rate.d

\* a ranking of two entries of different rates, returned for a history in which
\* another knowledge point has the ratio 0.65 exactly and is not listed
C4_Witness ==
    /\ Analyzed
    /\ Len(analysis.value) = 2
    /\ FracLess(analysis.value[1].mastery_rate, analysis.value[2].mastery_rate)
    /\ \E kp_id \in DOMAIN knowledge_points :
          /\ Cardinality(AttemptsOn(analysis.answers, analysis.student_id, kp_id)) = 20
          /\ Cardinality(CorrectOn(analysis.answers, analysis.student_id, kp_id)) = 13
          /\ kp_id \notin ListedIds

\* C5: analyze_student_weaknesses returns exactly the knowledge points within
\* the subject filter that the student attempted at least once with a
\* correct/total ratio below 0.65, each once; for the scenario A history it
\* returns the three weak points in ascending order of their ratio.
C5_ExactlyTheWeakPoints ==
    Analyzed =>
       /\ ListedIds = ExpectedWeak(analysis.answers, analysis.student_id, analysis.subject_id)
       /\ Len(analysis.value) = Cardinality(ListedIds)
       /\ (/\ analysis.answers = AnswerRows(ScenarioAHistory)
           /\ analysis.student_id = 1
           /\ analysis.subject_id = NoSubject)
          => [k \in DOMAIN analysis.value |-> analysis.value[k].knowledge_point_id] = <<3, 1, 2>>

\* the analysis of the scenario A history: 20 attempts, 5 points, 3 of them weak
C5_Witness ==
    /\ Analyzed
    /\ analysis.answers = AnswerRows(ScenarioAHistory)
    /\ Len(analysis.answers) = 20
    /\ analysis.student_id = 1
    /\ analysis.subject_id = NoSubject
    /\ Len(analysis.value) = 3
    /\ Cardinality({kp_id \in DOMAIN knowledge_points :
                       AttemptsOn(analysis.answers, 1, kp_id) # {}}) = 5

\* C7: every knowledge point of a mastery result carries the number of the
\* student's attempt records whose question is linked to it as total_attempts
\* (at least 1), the number of the correct ones among them as correct_attempts,
\* and their quotient as ratio; knowledge points without an attempt and, under
\* a subject filter, knowledge points of another subject are absent.
C7_MasteryTallies ==
    /\ Analyzed =>
          \A k \in DOMAIN analysis.value :
             LET e == analysis.value[k]
                 total == Cardinality(AttemptsOn(analysis.answers, analysis.student_id,
                                                 e.knowledge_point_id))
                 correct == Cardinality(CorrectOn(analysis.answers, analysis.student_id,
                                                  e.knowledge_point_id))
             IN  /\ e.total_attempts = total
                 /\ e.correct_attempts = correct
                 /\ e.mastery_rate = [n |-> correct, d |-> total]
                 /\ 0 <= e.correct_attempts
                 /\ e.correct_attempts <= e.total_attempts
                 /\ e.total_attempts >= 1
                 /\ InFilter(e.knowledge_point_id, analysis.subject_id)
    /\ Mastered =>
          /\ DOMAIN analysis.value =
                {kp_id \in DOMAIN knowledge_points :
                    AttemptsOn(analysis.answers, analysis.student_id, kp_id) # {}}
          /\ \A kp_id \in DOMAIN analysis.value :
                /\ analysis.value[kp_id].d =
                      Cardinality(AttemptsOn(analysis.answers, analysis.student_id, kp_id))
                /\ analysis.value[kp_id].n =
                      Cardinality(CorrectOn(analysis.answers, analysis.student_id, kp_id))
                /\ analysis.value[kp_id].d >= 1
                /\ analysis.value[kp_id].n <= analysis.value[kp_id].d

\* a mastery map with a partly mastered point, for a student who also answered
\* a question linked to two points and left another point unattempted
C7_Witness ==
    /\ Mastered
    /\ \E kp_id \in DOMAIN analysis.value :
          0 < analysis.value[kp_id].n /\ analysis.value[kp_id].n < analysis.value[kp_id].d
    /\ \E k \in DOMAIN analysis.answers :
          /\ analysis.answers[k].student_id = analysis.student_id
          /\ Cardinality({kp_id \in DOMAIN knowledge_points :
                             Linked(analysis.answers[k].question_id, kp_id)}) = 2
    /\ \E kp_id \in DOMAIN knowledge_points : kp_id \notin DOMAIN analysis.value

C8_CoverageBound ==
    pc = "done" =>
       LET c == result.weakness_coverage IN
       /\ 0 <= c.covered_count
       /\ c.covered_count <= c.total_count
       /\ 0 <= c.coverage_rate
       /\ c.coverage_rate <= 100
       /\ c.total_count = Len(weak_kp_ids)
       /\ c.covered_count =
             Cardinality({kp_id \in Range(weak_kp_ids) :
                             \E k \in DOMAIN result.questions :
                                 Linked(result.questions[k].id, kp_id)})
       /\ weaknesses = <<>> => (c.coverage_rate = 0 /\ c.total_count = 0)

\* a result that covers one of two weak knowledge points, with two questions
\* linked to the covered one
C8_Witness ==
    /\ pc = "done"
    /\ result.weakness_coverage.covered_count = 1
    /\ result.weakness_coverage.total_count = 2
    /\ result.weakness_coverage.coverage_rate = 50
    /\ Len(result.questions) >= 2

\* C9: within one block the difficulty targets of the slots 0, 1, ... are
\* non-decreasing in the slot index.
C9_GradientMonotone ==
    \A k, m \in DOMAIN targets : k < m => FracLeq(targets[k], targets[m])

\* the targets of a block of at least three slots at level hard, rising
C9_Witness ==
    /\ Len(targets) >= 3
    /\ Len(targets) = question_distribution[1].count
    /\ args.difficulty_level = "hard"
    /\ FracLess(targets[1], targets[Len(targets)])

InWindow(q, target) ==
    /\ FracLeq([n |-> target.n - WindowHalf * target.d, d |-> target.d],
               [n |-> q.difficulty, d |-> 1])
    /\ FracLeq([n |-> q.difficulty, d |-> 1],
               [n |-> target.n + WindowHalf * target.d, d |-> target.d])

\* C10: every question a run selects belongs to the requested subject, and a
\* run for a subject without questions in the bank returns no question.
C10_RequestedSubjectOnly ==
    /\ Running =>
          \A k \in DOMAIN selected_questions :
             selected_questions[k].subject_id = args.subject_id
    /\ pc = "done" =>
          /\ \A k \in DOMAIN result.questions :
                result.questions[k].subject_id = args.subject_id
          /\ (\A k \in DOMAIN questions : questions[k].subject_id # args.subject_id)
                => result.questions = <<>>

\* a slot that fell back to the unrestricted query and was filled while an
\* unused question of another subject had the slot's type and a difficulty
\* inside its window
C10_Witness ==
    /\ Running
    /\ slot.use_weakness
    /\ ~slot.restricted
    /\ slot.n_queries = 2
    /\ slot.question # NoQuestion
    /\ \E k \in DOMAIN questions :
          /\ questions[k].subject_id # args.subject_id
          /\ questions[k].question_type = slot.q_type
          /\ InWindow(questions[k], slot.target)
          /\ questions[k].id \notin Range(used_q_ids)

Searched == analysis.call = "search_questions"

Satisfies(q, filters) ==
    /\ filters.subject_id # NoSubject => q.subject_id = filters.subject_id
    /\ filters.question_type # NoType => q.question_type = filters.question_type
    /\ filters.min_difficulty # NoBound =>
          filters.min_difficulty.n <= q.difficulty * filters.min_difficulty.d
    /\ filters.max_difficulty # NoBound =>
          q.difficulty * filters.max_difficulty.d <= filters.max_difficulty.n
    /\ \A k \in DOMAIN filters.exclude_ids : q.id # filters.exclude_ids[k]
    /\ filters.knowledge_point_ids # <<>> =>
          \E k \in DOMAIN filters.knowledge_point_ids :
              Linked(q.id, filters.knowledge_point_ids[k])

\* C11: search_questions returns exactly the questions that satisfy all given
\* filters together and, when knowledge points are given, are linked to at
\* least one of them; each such question appears once, and a question whose id
\* is excluded never appears.
C11_SearchExact ==
    Searched =>
       /\ Range(analysis.value) = {q \in Range(questions) : Satisfies(q, args)}
       /\ \A k, m \in DOMAIN analysis.value :
             analysis.value[k] = analysis.value[m] => k = m
       /\ \A k \in DOMAIN analysis.value :
             analysis.value[k].id \notin Range(args.exclude_ids)

\* a search by two knowledge points that returns a question linked to both,
\* while another question that matches the other filters is excluded by id
C11_Witness ==
    /\ Searched
    /\ Len(args.knowledge_point_ids) = 2
    /\ args.subject_id # NoSubject
    /\ args.exclude_ids # <<>>
    /\ \E k \in DOMAIN analysis.value :
          \A m \in DOMAIN args.knowledge_point_ids :
              Linked(analysis.value[k].id, args.knowledge_point_ids[m])
    /\ \E q \in Range(questions) :
          /\ q.id \in Range(args.exclude_ids)
          /\ Satisfies(q, [args EXCEPT !.exclude_ids = <<>>])

SlotProcessed == pc \in {"select", "stats"} /\ slot # NoSlot

\* the ids used before the last processed slot
UsedBefore ==
    IF slot.question = NoQuestion THEN Range(used_q_ids)
    ELSE Range(used_q_ids) \ {slot.question.id}

\* the questions the last processed slot could take
SlotCandidates ==
    {q \in Range(questions) :
        /\ q.subject_id = args.subject_id
        /\ q.question_type = slot.q_type
        /\ InWindow(q, slot.target)
        /\ q.id \notin UsedBefore}

\* C12: a slot is skipped only when no unused question of the subject and the
\* slot's type lies in the slot's difficulty window; when one exists the slot
\* is filled with such a question, with or without weak preference, after at
\* most one retry without the knowledge-point restriction.
C12_SkipOnlyWhenExhausted ==
    SlotProcessed =>
       /\ slot.question = NoQuestion <=> SlotCandidates = {}
       /\ slot.question # NoQuestion => slot.question \in SlotCandidates
       /\ slot.n_queries = IF slot.use_weakness /\ ~slot.restricted THEN 2 ELSE 1

\* a slot skipped although an unused question of the subject and the slot's
\* type has a difficulty on the edge of the slot's window
C12_EdgeSkipped ==
    /\ SlotProcessed
    /\ slot.question = NoQuestion
    /\ SlotCandidates # {}

\* C13: the reported total_score is the sum of the point values the bank
\* stores for the selected questions and actual_count is the length of the
\* question list; the total is not adjusted toward total_score_target.
C13_ActualTotal ==
    pc = "done" =>
       /\ result.total_score =
             SumSeq([k \in DOMAIN result.questions |->
                        questions[result.questions[k].id].score])
       /\ result.actual_count = Len(result.questions)
       /\ result.questions = selected_questions

\* a result of three questions, two of them with the same point value, whose
\* total exceeds the requested total
C13_Witness ==
    /\ pc = "done"
    /\ result.actual_count = 3
    /\ result.total_score > args.total_score
    /\ \E k, m \in DOMAIN result.questions :
          k # m /\ result.questions[k].score = result.questions[m].score

Composing == pc # "idle" \/ pc' # "idle"

\* C14: every step of a composer run and every weakness or mastery analysis
\* leaves the attempt records, the questions, the knowledge points and the
\* question-to-knowledge-point links as they were.
C14_StoredDataUnchanged ==
    [][(Composing \/ analysis' # analysis) => UNCHANGED dbvars]_vars

\* a finished composer run with questions and an analysis with entries, both
\* over a stored history
C14_Witness ==
    /\ pc = "done"
    /\ result.questions # <<>>
    /\ weaknesses # <<>>
    /\ Analyzed
    /\ analysis.value # <<>>
    /\ student_answers # <<>>

NoHistory(rows, student_id) == \A k \in DOMAIN rows : rows[k].student_id # student_id

\* C15: for a student without attempt records analyze_student_weaknesses
\* returns the empty sequence and get_knowledge_point_mastery the empty map,
\* and a composer run for the student proceeds with no weak knowledge points.
C15_NoHistory ==
    /\ (Analyzed \/ Mastered) /\ NoHistory(analysis.answers, analysis.student_id)
          => analysis.value = <<>>
    /\ Running /\ NoHistory(student_answers, args.student_id) =>
          /\ weaknesses = <<>>
          /\ weak_kp_ids = <<>>
          /\ ~slot.use_weakness
          /\ slot.n_queries <= 1
          /\ pc = "done" =>
                /\ result.weaknesses_analyzed = <<>>
                /\ result.weakness_coverage =
                      [covered_count |-> 0, total_count |-> 0, coverage_rate |-> 0]

\* a run with weak-point focus that returned questions for a student without
\* attempts, after an analysis of that student returned nothing, while the
\* table holds a failed attempt of another student
C15_Witness ==
    /\ pc = "done"
    /\ args.focus_on_weaknesses
    /\ result.questions # <<>>
    /\ Analyzed
    /\ analysis.answers = student_answers
    /\ student_answers # <<>>
    /\ ~student_answers[1].is_correct
    /\ NoHistory(student_answers, args.student_id)
    /\ analysis.student_id = args.student_id

SameCombination(a, b) ==
    a.student_id = b.student_id /\ a.exam_id = b.exam_id /\ a.question_id = b.question_id

\* the (exam, question) pairs of a student's attempts on a knowledge point
AnsweredOn(rows, student_id, kp_id) ==
    {<<rows[k].exam_id, rows[k].question_id>> : k \in AttemptsOn(rows, student_id, kp_id)}

\* C16: the attempt history holds at most one record per (student, exam,
\* question) combination, and the tallies of an analysis count one answered
\* question of one exam at most once.
C16_OneRecordPerCombination ==
    /\ \A k, m \in DOMAIN student_answers :
          SameCombination(student_answers[k], student_answers[m]) => k = m
    /\ Analyzed =>
          \A k \in DOMAIN analysis.value :
             analysis.value[k].total_attempts <=
                Cardinality(AnsweredOn(analysis.answers, analysis.student_id,
                                       analysis.value[k].knowledge_point_id))

\* two add_student_answer calls for the same student, exam and question on an
\* empty history left two records, and the analysis counted two attempts
C16_CountedTwice ==
    /\ Analyzed
    /\ analysis.answers = student_answers
    /\ Len(student_answers) = 2
    /\ SameCombination(student_answers[1], student_answers[2])
    /\ \E k \in DOMAIN analysis.value : analysis.value[k].total_attempts = 2

\* C17: every composer result, also one without questions, carries an average
\* difficulty (0 when empty) and a count for each of the buckets easy, medium
\* and hard (0 when empty), and the exam-generation handler that reads the
\* three counts does not fail.
C17_ResultShape ==
    pc = "done" =>
       /\ DOMAIN result.difficulty_stats.distribution = {"easy", "medium", "hard"}
       /\ _generate_exam_display(result) = "shown"
       /\ result.questions = <<>> =>
             /\ result.difficulty_stats.average = 0
             /\ \A b \in DOMAIN result.difficulty_stats.distribution :
                   result.difficulty_stats.distribution[b] = 0

\* a run with the default template, as the handler starts it, returned no
\* question for a subject without questions, and the handler raised KeyError
C17_HandlerFails ==
    /\ pc = "done"
    /\ args.question_distribution = NoTemplate
    /\ questions # <<>>
    /\ result.questions = <<>>
    /\ result.difficulty_stats.average = 0
    /\ _generate_exam_display(result) = "KeyError"

\* the candidates of the last processed slot that are linked to a considered
\* weak knowledge point
WeakCandidates ==
    {q \in SlotCandidates : \E k \in DOMAIN weak_kp_ids : Linked(q.id, weak_kp_ids[k])}

\* C18: in a slot whose weak-preference draw succeeded, if an unused question
\* of the subject, the slot's type and the slot's difficulty window is linked
\* to a considered weak knowledge point, the selected question is linked to
\* one; the unrestricted query is used only when no such question exists.
C18_WeakPreferred ==
    SlotProcessed /\ slot.use_weakness =>
       /\ WeakCandidates # {} => slot.restricted /\ slot.question \in WeakCandidates
       /\ slot.n_queries = 2 => WeakCandidates = {}

\* a weak-preferring slot filled by the unrestricted query with a question
\* that is linked to no weak knowledge point, although an unused question on
\* the edge of the slot's window is linked to one
C18_EdgePassedOver ==
    /\ SlotProcessed
    /\ slot.use_weakness
    /\ slot.n_queries = 2
    /\ slot.question # NoQuestion
    /\ slot.question \notin WeakCandidates
    /\ WeakCandidates # {}

\* the number of slots of the template of the run
TemplateSlots ==
    SumSeq([k \in DOMAIN question_distribution |-> question_distribution[k].count])

RunWeak == ExpectedWeak(student_answers, args.student_id, args.subject_id)

RateOf(kp_id) ==
    [n |-> Cardinality(CorrectOn(student_answers, args.student_id, kp_id)),
     d |-> Cardinality(AttemptsOn(student_answers, args.student_id, kp_id))]

\* C20: the weak knowledge points a run considers are the first min(15, n)
\* entries of the ranking of n entries, none of them with a higher mastery
\* rate than a weak point left out; restricted queries and coverage use these
\* only, and the coverage total_count is min(15, n).
C20_FifteenWeakest ==
    Running =>
       /\ Len(weak_kp_ids) = Min2(15, Cardinality(RunWeak))
       /\ Len(weaknesses) = Cardinality(RunWeak)
       /\ \A k \in DOMAIN weak_kp_ids : weak_kp_ids[k] = weaknesses[k].knowledge_point_id
       /\ \A k \in DOMAIN weak_kp_ids :
             /\ weak_kp_ids[k] \in RunWeak
             /\ \A other \in RunWeak \ Range(weak_kp_ids) :
                   FracLeq(RateOf(weak_kp_ids[k]), RateOf(other))
       /\ slot.restricted =>
             \E k \in DOMAIN weak_kp_ids : Linked(slot.question.id, weak_kp_ids[k])
       /\ pc = "done" =>
             /\ result.weakness_coverage.total_count = Min2(15, Cardinality(RunWeak))
             /\ result.weakness_coverage.total_count <= 15
             /\ result.weakness_coverage.covered_count =
                   Cardinality({kp_id \in Range(weak_kp_ids) :
                                   \E k \in DOMAIN result.questions :
                                       Linked(result.questions[k].id, kp_id)})

\* a result for a student with 17 weak knowledge points: 15 are considered,
\* and a selected question linked only to the two left out adds no coverage
C20_Witness ==
    /\ pc = "done"
    /\ Cardinality(RunWeak) = 17
    /\ result.weakness_coverage.total_count = 15
    /\ \E k \in DOMAIN result.questions : result.questions[k].id = 3
    /\ result.weakness_coverage.covered_count < 15
    /\ result.weakness_coverage.covered_count > 0

\* the template entries of a question type
EntriesOf(q_type) ==
    {b \in DOMAIN question_distribution : question_distribution[b].q_type = q_type}

\* C21: the returned questions follow the template: every selected question
\* has the type of its slot and a difficulty within 0.15 of the slot's target,
\* the questions of a template entry form one block, the blocks are in
\* template order, and a block holds at most the entry's count of questions.
C21_FollowsTemplate ==
    /\ SlotProcessed /\ slot.question # NoQuestion =>
          /\ slot.question.question_type = slot.q_type
          /\ InWindow(slot.question, slot.target)
          /\ selected_questions[Len(selected_questions)] = slot.question
    /\ Running =>
          /\ \A k \in DOMAIN selected_questions :
                EntriesOf(selected_questions[k].question_type) # {}
          /\ \A k, m \in DOMAIN selected_questions :
                k < m => \A bk \in EntriesOf(selected_questions[k].question_type),
                            bm \in EntriesOf(selected_questions[m].question_type) : bk <= bm
          /\ \A b \in DOMAIN question_distribution :
                Cardinality({k \in DOMAIN selected_questions :
                                b \in EntriesOf(selected_questions[k].question_type)})
                   <= question_distribution[b].count
          /\ Len(selected_questions) <= TemplateSlots
    /\ pc = "done" => result.questions = selected_questions

\* a result with a choice block followed by a fill-in block that holds fewer
\* questions than the template has slots
C21_Witness ==
    /\ pc = "done"
    /\ Len(result.questions) >= 3
    /\ result.questions[1].question_type = "choice"
    /\ result.questions[Len(result.questions)].question_type = "fill_in"
    /\ Len(result.questions) < TemplateSlots

\* base difficulty, floor and ceiling of the block of SpecT, in hundredths
BlockBase ==
    IF args.difficulty_level = "easy" THEN 30
    ELSE IF args.difficulty_level = "hard" THEN 70 ELSE 50

BlockFloor == IF BlockBase - 20 < 10 THEN 10 ELSE BlockBase - 20
BlockCeiling == IF BlockBase + 20 > 90 THEN 90 ELSE BlockBase + 20
BlockCount == question_distribution[1].count

\* C22: the target of slot i of a block of count slots is
\* floor + (ceiling - floor) * i / count with floor = max(0.1, base - 0.2) and
\* ceiling = min(0.9, base + 0.2): the first target is the floor, every target
\* lies in [floor, ceiling) and in [0.1, 0.9], and none is the ceiling.
C22_TargetFormula ==
    \A k \in DOMAIN targets :
       /\ targets[k].d > 0
       /\ targets[k].n * BlockCount =
             (BlockFloor * BlockCount + (BlockCeiling - BlockFloor) * (k - 1)) * targets[k].d
       /\ k = 1 => targets[k].n = BlockFloor * targets[k].d
       /\ BlockFloor * targets[k].d <= targets[k].n
       /\ targets[k].n < BlockCeiling * targets[k].d
       /\ 10 * targets[k].d <= targets[k].n
       /\ targets[k].n <= 90 * targets[k].d

\* all targets of the largest block at level easy, whose floor meets the
\* lower clamp 0.1, or the single target of a block of one slot
C22_Witness ==
    /\ Len(targets) = BlockCount
    /\ BlockCount \in {1, MaxCount}
    /\ args.difficulty_level = "easy"
    /\ BlockFloor = 10
    /\ targets[1].n = 10 * targets[1].d

Finished == pc = "done" /\ result.questions # <<>>

\* the positions of the result whose question has a stored difficulty in [lo, hi)
StoredBetween(lo, hi) ==
    {k \in DOMAIN result.questions :
        /\ lo <= questions[result.questions[k].id].difficulty
        /\ questions[result.questions[k].id].difficulty < hi}

\* C23: for a non-empty exam the three buckets partition the selected
\* questions: difficulty < 0.4 counts as easy only, 0.4 <= difficulty < 0.7 as
\* medium only, difficulty >= 0.7 as hard only, and the counts sum to the
\* number of selected questions.
C23_BucketsPartition ==
    Finished =>
       LET distribution == result.difficulty_stats.distribution IN
       /\ distribution.easy = Cardinality(StoredBetween(0, 40))
       /\ distribution.medium = Cardinality(StoredBetween(40, 70))
       /\ distribution.hard = Cardinality(StoredBetween(70, 101))
       /\ distribution.easy + distribution.medium + distribution.hard = Len(result.questions)

\* an exam with a question of difficulty 0.39, one of exactly 0.4 and one of
\* exactly 0.7: one question in each bucket
C23_Witness ==
    /\ Finished
    /\ Len(result.questions) = 3
    /\ {result.questions[k].difficulty : k \in DOMAIN result.questions} = {39, 40, 70}
    /\ result.difficulty_stats.distribution = [easy |-> 1, medium |-> 1, hard |-> 1]

Observed(tag) == tag \in Range(result.recommendations)

\* C24 as stated: for every non-empty exam the under-coverage observation is
\* made whenever coverage_rate < 0.5 and the good-targeting observation
\* whenever coverage_rate >= 0.7, never both, and neither when
\* 0.5 <= coverage_rate < 0.7.
C24_Original ==
    Finished =>
       LET rate == result.weakness_coverage.coverage_rate IN
       /\ rate < 50 => Observed("under_coverage")
       /\ rate >= 70 => Observed("good_targeting")
       /\ ~(Observed("under_coverage") /\ Observed("good_targeting"))
       /\ 50 <= rate /\ rate < 70 =>
             ~Observed("under_coverage") /\ ~Observed("good_targeting")

\* C24: for every non-empty exam the under-coverage observation is made
\* exactly when coverage_rate < 0.5 and the student has a weak knowledge
\* point, the good-targeting observation exactly when coverage_rate >= 0.7,
\* never both, and neither when 0.5 <= coverage_rate < 0.7 or when the
\* student has no weak knowledge point.
C24_CoverageObservations ==
    Finished =>
       LET rate == result.weakness_coverage.coverage_rate IN
       /\ Observed("under_coverage") <=> (rate < 50 /\ RunWeak # {})
       /\ Observed("good_targeting") <=> rate >= 70
       /\ ~(Observed("under_coverage") /\ Observed("good_targeting"))
       /\ 50 <= rate /\ rate < 70 =>
             ~Observed("under_coverage") /\ ~Observed("good_targeting")
       /\ RunWeak = {} =>
             rate = 0 /\ ~Observed("under_coverage") /\ ~Observed("good_targeting")

\* a non-empty exam for a student without weak knowledge points: the coverage
\* rate is 0 and no coverage observation is made
C24_Witness ==
    /\ Finished
    /\ RunWeak = {}
    /\ result.weakness_coverage.coverage_rate = 0
    /\ ~Observed("under_coverage")
    /\ ~Observed("good_targeting")

\* C25: for a non-empty exam the too-easy observation is made exactly when
\* more than half of the selected questions have a difficulty below 0.4, the
\* too-hard observation exactly when more than half have one of 0.7 or more,
\* never both; for an empty exam the list is the bank-insufficient message.
C25_DifficultyObservations ==
    pc = "done" =>
       IF result.questions = <<>>
       THEN result.recommendations = <<"bank_insufficient">>
       ELSE /\ Observed("too_easy") <=>
                  2 * Cardinality(StoredBetween(0, 40)) > Len(result.questions)
            /\ Observed("too_hard") <=>
                  2 * Cardinality(StoredBetween(70, 101)) > Len(result.questions)
            /\ ~(Observed("too_easy") /\ Observed("too_hard"))
            /\ ~Observed("bank_insufficient")

\* an exam of two questions, one easy and one hard: each bucket holds exactly
\* half of the questions and neither observation is made
C25_Witness ==
    /\ Finished
    /\ Len(result.questions) = 2
    /\ Cardinality(StoredBetween(0, 40)) = 1
    /\ Cardinality(StoredBetween(70, 101)) = 1
    /\ ~Observed("too_easy")
    /\ ~Observed("too_hard")

\* the knowledge points met while scanning the history of a student, an attempt
\* at a time in stored order, the points of its question in the order in which
\* their links were stored
LinkOrderScan(stored, student_id, subject_id) ==
    LET answers == SelectSeq(stored, LAMBDA a : a.student_id = student_id)
        links(q) == SelectSeq(question_knowledge,
                       LAMBDA r : /\ r.question_id = q
                                  /\ subject_id # NoSubject =>
                                        knowledge_points[r.knowledge_point_id].subject_id
                                           = subject_id)
    IN  Concat([k \in DOMAIN answers |->
                  [m \in DOMAIN links(answers[k].question_id) |->
                      links(answers[k].question_id)[m].knowledge_point_id]])

FirstSeen(scan, kp_id) ==
    CHOOSE k \in DOMAIN scan : scan[k] = kp_id /\ \A m \in 1..(k - 1) : scan[m] # kp_id

SameRate(x, y) == FracLeq(x.mastery_rate, y.mastery_rate) /\ FracLeq(y.mastery_rate, x.mastery_rate)

\* C26: among weak knowledge points with equal mastery_rate the ranking keeps
\* the order of first encounter, attempts taken in stored order and the
\* knowledge points of one attempt's question in link order.
C26_TiesInLinkOrder ==
    Analyzed =>
       LET ranking == analysis.value
           scan == LinkOrderScan(analysis.answers, analysis.student_id, analysis.subject_id)
       IN  \A a, b \in DOMAIN ranking :
              (a < b /\ SameRate(ranking[a], ranking[b])) =>
                 FirstSeen(scan, ranking[a].knowledge_point_id)
                    < FirstSeen(scan, ranking[b].knowledge_point_id)

\* one wrong attempt on question 6, whose links were stored for point 5 and
\* then for point 1: the ranking lists point 1 before point 5
C26_IdOrderTie ==
    /\ Analyzed
    /\ analysis.student_id = 1
    /\ analysis.subject_id = NoSubject
    /\ Len(analysis.answers) = 1
    /\ analysis.answers[1].student_id = 1
    /\ analysis.answers[1].question_id = 6
    /\ ~analysis.answers[1].is_correct
    /\ Len(analysis.value) = 2
    /\ analysis.value[1].knowledge_point_id = 1
    /\ analysis.value[2].knowledge_point_id = 5

\* a run that follows a run that returned
Preceded == analysis.call = "generate_targeted_exam"

SelectedIds == [k \in DOMAIN selected_questions |-> selected_questions[k].id]

\* the outcomes the last processed slot has in a run that nothing preceded:
\* those of _select_question over the stored data, the arguments of the run
\* and the questions the run itself selected before the slot
FreshOutcomes ==
    LET before == IF slot.question = NoQuestion THEN SelectedIds
                  ELSE SubSeq(SelectedIds, 1, Len(SelectedIds) - 1)
        w == analyze_student_weaknesses(args.student_id, args.subject_id)
    IN  _select_question(args.subject_id, slot.q_type,
                         IF slot.use_weakness THEN WeakKpIds(w) ELSE <<>>,
                         slot_difficulty_range(slot.index, slot.count,
                                               _get_difficulty_target(args.difficulty_level)),
                         before)

\* C27: composer runs share no state: the exclusion set of a run holds the
\* questions of that run only and starts empty, the ranking a run uses is the
\* one of the stored history, and every slot has one of the outcomes it has
\* in a run that no other run preceded, whichever runs, for the same or for
\* another student, were executed before.
C27_RunsShareNoState ==
    /\ pc # "idle" =>
          /\ used_q_ids = SelectedIds
          /\ weaknesses = analyze_student_weaknesses(args.student_id, args.subject_id)
    /\ (pc = "select" /\ slot = NoSlot) => used_q_ids = <<>>
    /\ SlotProcessed =>
          [question |-> slot.question, n_queries |-> slot.n_queries,
           restricted |-> slot.restricted] \in FreshOutcomes

\* a run that returns the questions the run before it returned, for the same
\* student
C27_Witness ==
    /\ Preceded
    /\ pc = "done"
    /\ analysis.student_id = args.student_id
    /\ result.questions # <<>>
    /\ result.questions = analysis.value.questions

\* the number of template slots the loops have gone through
Processed ==
    SumSeq([k \in 1..(block - 1) |-> question_distribution[k].count]) + i

\* C28: every composer run terminates after processing each template slot
\* exactly once: every step of the loops goes on to the next slot and issues
\* one or two bank queries, two only when the slot preferred weak points and
\* the restricted query supplied nothing; with S the sum of the template
\* counts the run has issued at least S and at most 2*S queries when the
\* loops end, and it then returns a result.
C28_Terminates ==
    /\ [](Running =>
            /\ Processed <= queries
            /\ queries <= 2 * Processed
            /\ Processed <= TemplateSlots
            /\ slot # NoSlot =>
                  /\ slot.n_queries \in {1, 2}
                  /\ slot.n_queries = 2 => slot.use_weakness /\ ~slot.restricted
            /\ pc \in {"stats", "done"} =>
                  /\ Processed = TemplateSlots
                  /\ TemplateSlots <= queries
                  /\ queries <= 2 * TemplateSlots
            /\ pc = "done" => result.returned)
    /\ [][pc = "select" =>
             /\ Processed' = Processed + 1
             /\ queries' - queries \in {1, 2}]_vars
    /\ (pc \in {"select", "stats"}) ~> (pc = "done")

\* a returned run of four slots, every one of them with two queries, that
\* filled some of its slots and skipped others
C28_Witness ==
    /\ pc = "done"
    /\ result.returned
    /\ TemplateSlots = 4
    /\ queries = 2 * TemplateSlots
    /\ result.questions # <<>>
    /\ Len(result.questions) < TemplateSlots

\* the positions of the result whose question is linked to a weak knowledge
\* point the run considered
TouchesConsidered ==
    {k \in DOMAIN result.questions :
        \E m \in DOMAIN weak_kp_ids : Linked(result.questions[k].id, weak_kp_ids[m])}

\* C29: a selected question is marked as touching a weak knowledge point
\* exactly when it is linked to at least one of the weak knowledge points the
\* run considered, the ones used for the restricted queries and for coverage;
\* every question counted toward covered_count is marked weak.
C29_WeakMark ==
    pc = "done" =>
       \A k \in DOMAIN result.questions :
          _display_generated_questions(result)[k] <=> k \in TouchesConsidered

\* a result for a student with 12 weak knowledge points: question 2, linked to
\* the points ranked 11th and 12th, was supplied by a restricted query and
\* adds to covered_count, and its row carries no weak mark
C29_UnmarkedCovered ==
    /\ pc = "done"
    /\ Len(weak_kp_ids) = 12
    /\ result.weakness_coverage.total_count = 12
    /\ \E k \in DOMAIN result.questions :
          /\ result.questions[k].id = 2
          /\ k \in TouchesConsidered
          /\ ~_display_generated_questions(result)[k]
    /\ result.weakness_coverage.covered_count >= 2

\* two templates with the same types and counts, entry by entry
SameTypesAndCounts(t1, t2) ==
    /\ Len(t1) = Len(t2)
    /\ \A k \in DOMAIN t1 : t1[k].q_type = t2[k].q_type /\ t1[k].count = t2[k].count

\* the run that returned last had the arguments of this run except for the
\* score_each values of its template, which differ
OtherScoresBefore ==
    /\ Preceded
    /\ analysis.answers = student_answers
    /\ analysis.args.student_id = args.student_id
    /\ analysis.args.subject_id = args.subject_id
    /\ analysis.args.focus_on_weaknesses = args.focus_on_weaknesses
    /\ analysis.args.difficulty_level = args.difficulty_level
    /\ SameTypesAndCounts(analysis.args.question_distribution, args.question_distribution)
    /\ analysis.args.question_distribution # args.question_distribution

\* C30: the score_each values of the template do not influence a run: every
\* slot has the outcomes it has for the types and counts alone, and a run
\* that made the selections of an earlier run over the same stored data, with
\* a template of the same types and counts but other score_each values,
\* returns the same total_score, count, statistics and recommendations.
C30_ScoreEachIgnored ==
    /\ SlotProcessed =>
          [question |-> slot.question, n_queries |-> slot.n_queries,
           restricted |-> slot.restricted] \in FreshOutcomes
    /\ (pc = "done" /\ OtherScoresBefore
           /\ result.questions = analysis.value.questions) =>
          result = analysis.value

\* two runs in a row with templates that differ in score_each only returned
\* the same two questions, with a total that neither template plans
C30_Witness ==
    /\ pc = "done"
    /\ OtherScoresBefore
    /\ Len(result.questions) = 2
    /\ result.questions = analysis.value.questions
    /\ result.total_score = analysis.value.total_score
    /\ result.total_score #
          SumSeq([k \in DOMAIN question_distribution |->
                     question_distribution[k].count * question_distribution[k].score_each])

=============================================================================
